---- MODULE Spec2Model ----
(***************************************************************************)
(* State-machine model of the safechild-lite backend services:             *)
(*   - TTSService     (backend/services/ttsService.py)  file cache         *)
(*   - SMSService     (backend/services/smsService.py)  rate limiter       *)
(*   - EmergencyAPI   (backend/api/emergency.py)        classifier, store  *)
(*   - ComplaintAPI   (backend/api/complaint.py)        validation, store  *)
(* Time is a wall clock counted in hours.  Strings that the code inspects  *)
(* character by character are tuples of one-character strings.            *)
(***************************************************************************)
EXTENDS Integers, Sequences, FiniteSets, TLC

VARIABLES
    now,              \* wall clock, in hours since the process started
    cache,            \* TTS cache directory: cache key -> [mtime, data]
    tts_ok,           \* history: the last successful conversion
    tts_result,       \* result of the last convert_text_to_speech call
    tts_calls,        \* convert_text_to_speech calls that overlap in time
    sms_sent_count,   \* SMSService.sms_sent_count, the "hourly" counter
    sms_sent_today,   \* SMSService.sms_sent_today
    last_sms_reset,   \* SMSService.last_sms_reset, a clock reading
    sms_calls,        \* send coroutines of the SMS service, suspended or idle
    sms_result,       \* what the last finished SMS service call returned
    level_result,     \* the last determine_emergency_level call and its answer
    emergency_alerts, \* EmergencyAPI.emergency_alerts: alert id -> alert
    em_pending,       \* process_emergency handlers awaiting an SMS coroutine
    alerts_created,   \* number of alert ids create_alert_id has issued
    complaints,       \* ComplaintAPI.complaints: complaint id -> complaint
    complaints_created, \* number of ids create_complaint_id has issued
    http_response,    \* the last response of the emergency or complaint API
    chat_sessions,    \* chatbot.py chat_sessions: session id -> session
    chat_calls,       \* chat_with_bot handlers awaiting the AI provider
    sessions_generated, \* number of ids _generate_session_id has issued
    chat_response,    \* the last response of the chatbot API
    ai_managers       \* the AIManager objects: config.py's and GPTService's

ttsVars == <<cache, tts_ok, tts_result, tts_calls>>
smsVars == <<sms_sent_count, sms_sent_today, last_sms_reset, sms_calls, sms_result>>
apiVars == <<level_result, emergency_alerts, em_pending, alerts_created,
             complaints, complaints_created, http_response>>
chatVars == <<chat_sessions, chat_calls, sessions_generated, chat_response,
              ai_managers>>
vars == <<now, cache, tts_ok, tts_result, tts_calls,
          sms_sent_count, sms_sent_today, last_sms_reset, sms_calls, sms_result,
          level_result, emergency_alerts, em_pending, alerts_created,
          complaints, complaints_created, http_response,
          chat_sessions, chat_calls, sessions_generated, chat_response,
          ai_managers>>

None == "None"

(***************************************************************************)
(* Bounds of the model                                                     *)
(***************************************************************************)
TickHours == 12       \* granularity of the clock
MaxNow == 26          \* the clock stops advancing here
MaxCacheSize == 3     \* TTS_MAX_CACHE_SIZE_MB, counted in bytes of the model
max_sms_per_hour == 3 \* SMS_MAX_PER_HOUR of the modelled deployment
max_sms_per_day == 2  \* SMS_MAX_PER_DAY of the modelled deployment
MaxCount == 4         \* sends are no longer counted beyond this
MaxMessages == 3      \* a chat session holds no more messages than this

(***************************************************************************)
(* Clock                                                                   *)
(***************************************************************************)
HoursPerDay == 24

Tick ==
    /\ now + TickHours <= MaxNow
    /\ now' = now + TickHours

(***************************************************************************)
(* utils/textCleaner.py                                                    *)
(***************************************************************************)
IsSpace(c) == c = " "

\* re.sub(r'\s+', ' ', text): every run of white space becomes one blank
RECURSIVE normalize_whitespace(_)
normalize_whitespace(text) ==
    IF Len(text) = 0 THEN <<>>
    ELSE IF IsSpace(Head(text))
         THEN LET rest == normalize_whitespace(Tail(text))
              IN  IF Len(rest) > 0 /\ IsSpace(Head(rest)) THEN rest
                  ELSE <<" ">> \o rest
         ELSE <<Head(text)>> \o normalize_whitespace(Tail(text))

RECURSIVE lstrip(_)
lstrip(text) ==
    IF Len(text) > 0 /\ IsSpace(Head(text)) THEN lstrip(Tail(text)) ELSE text

RECURSIVE rstrip(_)
rstrip(text) ==
    IF Len(text) > 0 /\ IsSpace(text[Len(text)])
    THEN rstrip(SubSeq(text, 1, Len(text) - 1)) ELSE text

strip(text) == rstrip(lstrip(text))

\* position of the first ">" of the text, 0 if there is none
RECURSIVE FirstClose(_, _)
FirstClose(text, i) ==
    IF i > Len(text) THEN 0
    ELSE IF text[i] = ">" THEN i ELSE FirstClose(text, i + 1)

\* re.sub(r'<[^>]+>', '', text): every tag is taken out
RECURSIVE remove_html_content(_)
remove_html_content(text) ==
    IF Len(text) = 0 THEN <<>>
    ELSE IF Head(text) = "<" /\ FirstClose(text, 2) > 2
         THEN remove_html_content(SubSeq(text, FirstClose(text, 2) + 1, Len(text)))
         ELSE <<Head(text)>> \o remove_html_content(Tail(text))

\* clean_text with its default options, on texts without script elements,
\* "javascript:", "data:", HTML entities or typographic characters (the
\* other passes leave those alone)
clean_text(text) ==
    IF Len(text) = 0 THEN <<>>
    ELSE strip(normalize_whitespace(remove_html_content(text)))

(***************************************************************************)
(* TTSService                                                              *)
(***************************************************************************)
default_language == "en"
default_slow == FALSE
audio_format == "mp3"
cache_ttl_hours == 24
supported_languages == {"en", "es", "fr"}

\* raw request texts: empty, blank, plain, padded, and with a run of blanks
Texts == {<<>>, <<" ">>, <<"a">>, <<" ", "a", " ">>, <<"a", " ", " ", "a">>}
Languages == {None, "xx"}
SlowFlags == {None, "True"}
Formats == {None, "wav"}
\* what the external synthesis may hand back: some audio bytes, or nothing
\* (None and b"" are both falsy in the code and both written <<>> here)
Audios == {<<1>>, <<2, 2>>}
NoAudio == <<>>
NoKey == <<>>
SynthOutcomes == {NoAudio} \cup Audios

BoolStr(b) == IF b THEN "True" ELSE "False"

\* f"{text}_{language}_{slow}_{format_type}", hashed; the digest is taken
\* to be injective on the formatted string
_generate_cache_key(text, language, slow, format_type) ==
    text \o <<"_", language, "_", BoolStr(slow), "_", format_type>>

\* a variant that answers False when the age cannot be computed
_is_cache_expired_false(c, key) == FALSE

\* datetime is not imported by ttsService.py: datetime.now() raises
\* NameError, and the except clause answers True for every file
_is_cache_expired(c, key) == TRUE

Remove(c, key) == [k \in DOMAIN c \ {key} |-> c[k]]

\* _get_cached_audio: the pair <<bytes or None, directory afterwards>>
_get_cached_audio(c, key) ==
    IF key \notin DOMAIN c THEN <<NoAudio, c>>
    ELSE IF _is_cache_expired(c, key) THEN <<NoAudio, Remove(c, key)>>
    ELSE <<c[key].data, c>>

\* a variant whose file is seen by others while it is still empty
_cache_audio_truncating(c, key, audio_data) ==
    [k \in DOMAIN c \cup {key} |->
        IF k = key THEN [mtime |-> now, data |-> NoAudio] ELSE c[k]]

_cache_audio(c, key, audio_data) ==
    [k \in DOMAIN c \cup {key} |->
        IF k = key THEN [mtime |-> now, data |-> audio_data] ELSE c[k]]

RECURSIVE SumSizes(_, _)
SumSizes(c, keys) ==
    IF keys = {} THEN 0
    ELSE LET k == CHOOSE x \in keys : TRUE
         IN  Len(c[k].data) + SumSizes(c, keys \ {k})

_get_cache_size(c) == SumSizes(c, DOMAIN c)

\* a variant that removes the newest file first
RECURSIVE _enforce_cache_size_limit_newest_first(_)
_enforce_cache_size_limit_newest_first(c) ==
    IF _get_cache_size(c) <= MaxCacheSize THEN c
    ELSE LET newest == CHOOSE k \in DOMAIN c :
                           \A j \in DOMAIN c : c[k].mtime >= c[j].mtime
         IN  _enforce_cache_size_limit_newest_first(Remove(c, newest))

\* removes files oldest first until the directory fits the budget
RECURSIVE _enforce_cache_size_limit(_)
_enforce_cache_size_limit(c) ==
    IF _get_cache_size(c) <= MaxCacheSize THEN c
    ELSE LET oldest == CHOOSE k \in DOMAIN c :
                           \A j \in DOMAIN c : c[k].mtime <= c[j].mtime
         IN  _enforce_cache_size_limit(Remove(c, oldest))

_cleanup_cache(c) ==
    LET kept == {k \in DOMAIN c : ~_is_cache_expired(c, k)}
    IN  _enforce_cache_size_limit([k \in kept |-> c[k]])

NoPrior == [key |-> NoKey, at |-> -1, audio |-> NoAudio]

\* age, in hours, of the file a lookup of key finds; -1 when there is none
FileAge(c, key) == IF key \in DOMAIN c THEN now - c[key].mtime ELSE -1

\* the returned dictionary, with what the call did: synth (the synthesis was
\* called), wrote (the file was written and the sweep ran), found_age (the
\* age of the file the lookup found), prior (the preceding success, if it
\* was for the same key), seq (alternates with every call)
TtsResult(success, cached, audio, key, error, synth, wrote, prior) ==
    [success |-> success, cached |-> cached, audio |-> audio, key |-> key,
     error |-> error, synth |-> synth, wrote |-> wrote, at |-> now,
     found_age |-> IF key = NoKey THEN -1 ELSE FileAge(cache, key),
     prior |-> prior, seq |-> 1 - tts_result.seq]

\* convert_text_to_speech; synth is what _generate_speech returns if called
convert_text_to_speech(text, language, slow, format, synth) ==
    LET cleaned_text == clean_text(text)
        lang == IF language = None THEN default_language ELSE language
        slow_speech == IF slow = None THEN default_slow ELSE slow = "True"
        format_type == IF format = None THEN audio_format ELSE format
        cache_key == _generate_cache_key(cleaned_text, lang, slow_speech, format_type)
        prior == IF tts_ok.key = cache_key THEN tts_ok ELSE NoPrior
        looked == _get_cached_audio(cache, cache_key)
        cached_audio == looked[1]
    IN
    IF Len(cleaned_text) = 0 THEN
        /\ tts_result' = TtsResult(FALSE, FALSE, NoAudio, NoKey,
                                   "Invalid or empty text input", FALSE, FALSE, NoPrior)
        /\ UNCHANGED <<cache, tts_ok>>
    ELSE IF lang \notin supported_languages THEN
        /\ tts_result' = TtsResult(FALSE, FALSE, NoAudio, NoKey,
                                   "Unsupported language", FALSE, FALSE, NoPrior)
        /\ UNCHANGED <<cache, tts_ok>>
    ELSE IF Len(cached_audio) > 0 THEN
        /\ tts_result' = TtsResult(TRUE, TRUE, cached_audio, cache_key,
                                   None, FALSE, FALSE, prior)
        /\ cache' = looked[2]
        /\ tts_ok' = [key |-> cache_key, at |-> now, audio |-> cached_audio]
    ELSE IF Len(synth) = 0 THEN
        /\ tts_result' = TtsResult(FALSE, FALSE, NoAudio, cache_key,
                                   "Failed to generate speech audio", TRUE, FALSE, prior)
        /\ cache' = looked[2]
        /\ UNCHANGED tts_ok
    ELSE
        /\ tts_result' = TtsResult(TRUE, FALSE, synth, cache_key,
                                   None, TRUE, TRUE, prior)
        /\ cache' = _cleanup_cache(_cache_audio(looked[2], cache_key, synth))
        /\ tts_ok' = [key |-> cache_key, at |-> now, audio |-> synth]

ConvertTextToSpeech ==
    \E text \in Texts, language \in Languages, slow \in SlowFlags,
       format \in Formats, synth \in SynthOutcomes :
        /\ convert_text_to_speech(text, language, slow, format, synth)
        /\ UNCHANGED <<now, tts_calls, smsVars, apiVars, chatVars>>

TtsTick == Tick /\ UNCHANGED <<ttsVars, smsVars, apiVars, chatVars>>

\* _enforce_cache_size_limit applied to the cache directory as it is
EnforceCacheSizeLimit ==
    /\ cache' = _enforce_cache_size_limit(cache)
    /\ UNCHANGED <<now, tts_ok, tts_result, tts_calls, smsVars, apiVars, chatVars>>

(***************************************************************************)
(* convert_text_to_speech, one stretch between two awaits at a time: the   *)
(* lookup, the synthesis, the write and the sweep of two calls interleave  *)
(***************************************************************************)
TtsCallIds == {1, 2}

\* two raw texts of one cache key, and a text of another key
RaceTexts == {<<"a">>, <<" ", "a", " ">>, <<"a", " ", " ", "a">>}

\* the audio gTTS makes of a text (the same text gives the same audio)
gTTS(text) == IF Len(text) = 1 THEN <<1>> ELSE <<2, 2>>

\* what the gTTS call of a request does
GttsCalls == {"audio", "raises"}

IdleTtsCall ==
    [pc |-> "idle", text |-> <<>>, key |-> NoKey, audio |-> NoAudio,
     success |-> FALSE, cached |-> FALSE, synth |-> FALSE, error |-> None,
     raced |-> FALSE]

\* the calls that have passed their lookup and have not returned
TtsInFlight == {c \in TtsCallIds : tts_calls[c].pc \in {"synthesize", "write", "sweep"}}

\* a request arrives; the handler runs up to the end of _get_cached_audio
TtsLookup(c, text) ==
    LET cleaned_text == clean_text(text)
        cache_key == _generate_cache_key(cleaned_text, default_language,
                                         default_slow, audio_format)
        looked == _get_cached_audio(cache, cache_key)
        call == [IdleTtsCall EXCEPT !.text = cleaned_text, !.key = cache_key,
                    !.raced = \E d \in TtsInFlight : tts_calls[d].key = cache_key]
    IN
    /\ tts_calls[c].pc \in {"idle", "done"}
    /\ Len(cleaned_text) > 0
    /\ cache' = looked[2]
    /\ tts_calls' = [tts_calls EXCEPT ![c] =
           IF Len(looked[1]) > 0
           THEN [call EXCEPT !.pc = "done", !.success = TRUE, !.cached = TRUE,
                             !.audio = looked[1]]
           ELSE [call EXCEPT !.pc = "synthesize"]]

\* _generate_speech
TtsSynthesize(c, does) ==
    LET call == tts_calls[c]
        audio_data == IF does = "raises" THEN NoAudio ELSE gTTS(call.text)
    IN
    /\ call.pc = "synthesize"
    /\ tts_calls' = [tts_calls EXCEPT ![c] =
           IF Len(audio_data) = 0
           THEN [call EXCEPT !.pc = "done", !.synth = TRUE,
                             !.error = "Failed to generate speech audio"]
           ELSE [call EXCEPT !.pc = "write", !.synth = TRUE, !.audio = audio_data]]
    /\ UNCHANGED cache

\* _cache_audio
TtsWrite(c) ==
    /\ tts_calls[c].pc = "write"
    /\ cache' = _cache_audio(cache, tts_calls[c].key, tts_calls[c].audio)
    /\ tts_calls' = [tts_calls EXCEPT ![c].pc = "sweep"]

\* _cleanup_cache, and the return of the result
TtsSweep(c) ==
    /\ tts_calls[c].pc = "sweep"
    /\ cache' = _cleanup_cache(cache)
    /\ tts_calls' = [tts_calls EXCEPT ![c].pc = "done", ![c].success = TRUE]

TtsRaceStep ==
    \E c \in TtsCallIds :
        /\ \/ \E text \in RaceTexts : TtsLookup(c, text)
           \/ \E does \in GttsCalls : TtsSynthesize(c, does)
           \/ TtsWrite(c)
           \/ TtsSweep(c)
        /\ UNCHANGED <<now, tts_ok, tts_result, smsVars, apiVars, chatVars>>

(***************************************************************************)
(* SMSService                                                              *)
(***************************************************************************)
\* placeholders of the message templates
emergency_templates ==
    [sos_alert |-> {"child_name", "location", "contact_number", "priority"},
     safety_concern |-> {"description", "location", "contact_number"},
     incident_report |-> {"incident_type", "location", "status", "contact_number"},
     status_update |-> {"update_type", "description", "contact_number"}]

\* TWILIO_ACCOUNT_SID, TWILIO_AUTH_TOKEN and TWILIO_PHONE_NUMBER are unset
\* in the modelled deployment: no client is created
twilio_client == FALSE

\* "log" is always on; SMS_FALLBACK_EMAIL and SMS_FALLBACK_WEBHOOK are unset
\* (and both methods are placeholders that report failure)
fallback_methods == {"log"}

Digits == {"0", "1", "2", "3", "4", "5", "6", "7", "8", "9"}
IsDigit(ch) == ch \in Digits

ValidPhone == <<"5", "5", "5", "-", "0", "1", "0", "0">>
ShortPhone == <<"9", "1", "1">>
Phones == {ValidPhone, ShortPhone}
RecipientLists ==
    {<<>>, <<ValidPhone>>, <<ShortPhone>>, <<ValidPhone, ShortPhone>>,
     <<ValidPhone, ValidPhone>>}
RecipientCounts == {Len(recipients) : recipients \in RecipientLists} \ {0}
AlertDatas == {{"location", "contact_number"}, {"location"}}
AlertTypes == {"sos_alert", "incident_report", "evacuation"}
NotificationTypes == {"safety_concern", "sos_alert"}

CallIds == {1, 2}

_validate_alert_data(alert_data) ==
    \A field \in {"location", "contact_number"} : field \in alert_data

_validate_phone_number(phone_number) ==
    IF Len(phone_number) = 0 THEN FALSE
    ELSE LET digits_only == SelectSeq(phone_number, IsDigit)
         IN  7 <= Len(digits_only) /\ Len(digits_only) <= 15

\* TRUE when a message comes out of the template, FALSE for None
_prepare_emergency_message(alert_type) ==
    alert_type \in DOMAIN emergency_templates

\* only description, location and contact_number are passed to format()
_prepare_safety_message(notification_type) ==
    /\ notification_type \in DOMAIN emergency_templates
    /\ emergency_templates[notification_type] \subseteq
           {"description", "location", "contact_number"}

_prepare_status_message == "status_update" \in DOMAIN emergency_templates

\* _send_via_email and _send_via_webhook are placeholders: success False
_send_via_email == FALSE
_send_via_webhook == FALSE

\* fallback_results: "log" whenever logging is on, "email" and "webhook"
\* when the method is configured and its send succeeded
_send_via_fallback(recipient) ==
    LET fallback_results ==
            {m \in fallback_methods :
                \/ m = "log"
                \/ m = "email" /\ _send_via_email
                \/ m = "webhook" /\ _send_via_webhook}
    IN  IF fallback_results # {}
        THEN [success |-> TRUE, provider |-> "fallback",
              fallback_methods |-> fallback_results]
        ELSE [success |-> FALSE, provider |-> "fallback", fallback_methods |-> {}]

\* _send_single_sms for a message prepared from a template (never empty)
_send_single_sms(recipient) ==
    IF ~_validate_phone_number(recipient)
    THEN [success |-> FALSE, provider |-> "none", fallback_methods |-> {}]
    ELSE IF twilio_client
    THEN [success |-> TRUE, provider |-> "twilio", fallback_methods |-> {}]
    ELSE _send_via_fallback(recipient)

\* the date of a clock reading
Date(t) == t \div HoursPerDay

\* a variant that resets the daily counter after 24 elapsed hours
DailyResetDueElapsed(current_time, last_reset) ==
    current_time - last_reset >= HoursPerDay

\* current_time.date() > self.last_sms_reset.date()
DailyResetDue(current_time, last_reset) ==
    Date(current_time) > Date(last_reset)

\* a variant that lets the counter reach the limit before refusing
HourlyLimitReachedStrict(count) == count > max_sms_per_hour

\* self.sms_sent_count >= self.max_sms_per_hour
HourlyLimitReached(count) == count >= max_sms_per_hour

\* a variant that compares the daily total before adding the batch
DailyLimitExceededBefore(today, additional_sms) ==
    today > max_sms_per_day

DailyLimitExceeded(today, additional_sms) ==
    today + additional_sms > max_sms_per_day

\* _check_rate_limits: the answer, and the fields it leaves behind
_check_rate_limits(additional_sms) ==
    LET current_time == now
        reset == DailyResetDue(current_time, last_sms_reset)
        today == IF reset THEN 0 ELSE sms_sent_today
        last == IF reset THEN current_time ELSE last_sms_reset
        ok == IF HourlyLimitReached(sms_sent_count) THEN FALSE
              ELSE IF DailyLimitExceeded(today, additional_sms) THEN FALSE
              ELSE TRUE
    IN  [ok |-> ok, reset |-> reset, sms_sent_today |-> today, last_sms_reset |-> last]

IdleCall == [pc |-> "idle", kind |-> None, recipients |-> <<>>, results |-> <<>>]

NoCheck == [ran |-> FALSE, reset |-> FALSE, elapsed |-> 0]

\* the returned dictionary of a send, with what the call did: attempted (the
\* number of _send_single_sms calls), added (what it added to the counters),
\* check (the rate-limit check a refused call ran), seq (alternates with
\* every return)
SmsResult(kind, error, results, n, added, check) ==
    [kind |-> kind, error |-> error,
     success |-> Len(SelectSeq(results, LAMBDA r : r.success)) > 0,
     sent_count |-> Len(SelectSeq(results, LAMBDA r : r.success)),
     total_recipients |-> n, attempted |-> Len(results), added |-> added,
     check |-> check, seq |-> 1 - sms_result.seq]

CheckRecord(chk) ==
    [ran |-> TRUE, reset |-> chk.reset, elapsed |-> now - last_sms_reset]

StartCall(c, kind, recipients) ==
    sms_calls' = [sms_calls EXCEPT ![c] =
        [pc |-> "sleeping", kind |-> kind, recipients |-> recipients,
         results |-> <<_send_single_sms(recipients[1])>>]]

\* send_emergency_alert up to its first asyncio.sleep
send_emergency_alert(c, alert_data, recipients, alert_type) ==
    LET chk == _check_rate_limits(Len(recipients)) IN
    IF Len(recipients) = 0 THEN
        /\ sms_result' = SmsResult("emergency", "No recipients specified", <<>>, 0, 0, NoCheck)
        /\ UNCHANGED <<sms_sent_count, sms_sent_today, last_sms_reset, sms_calls>>
    ELSE IF ~_validate_alert_data(alert_data) THEN
        /\ sms_result' = SmsResult("emergency", "Invalid alert data", <<>>,
                                   Len(recipients), 0, NoCheck)
        /\ UNCHANGED <<sms_sent_count, sms_sent_today, last_sms_reset, sms_calls>>
    ELSE
        /\ sms_sent_today' = chk.sms_sent_today
        /\ last_sms_reset' = chk.last_sms_reset
        /\ UNCHANGED sms_sent_count
        /\ IF ~chk.ok THEN
               /\ sms_result' = SmsResult("emergency", "Rate limit exceeded", <<>>,
                                          Len(recipients), 0, CheckRecord(chk))
               /\ UNCHANGED sms_calls
           ELSE IF ~_prepare_emergency_message(alert_type) THEN
               /\ sms_result' = SmsResult("emergency", "Failed to prepare emergency message",
                                          <<>>, Len(recipients), 0, CheckRecord(chk))
               /\ UNCHANGED sms_calls
           ELSE
               /\ StartCall(c, "emergency", recipients)
               /\ UNCHANGED sms_result

\* send_safety_notification up to its first asyncio.sleep
send_safety_notification(c, recipients, notification_type) ==
    IF Len(recipients) = 0 THEN
        /\ sms_result' = SmsResult("safety", "No recipients specified", <<>>, 0, 0, NoCheck)
        /\ UNCHANGED <<sms_sent_count, sms_sent_today, last_sms_reset, sms_calls>>
    ELSE IF ~_prepare_safety_message(notification_type) THEN
        /\ sms_result' = SmsResult("safety", "Failed to prepare safety message", <<>>,
                                   Len(recipients), 0, NoCheck)
        /\ UNCHANGED <<sms_sent_count, sms_sent_today, last_sms_reset, sms_calls>>
    ELSE
        /\ StartCall(c, "safety", recipients)
        /\ UNCHANGED <<sms_sent_count, sms_sent_today, last_sms_reset, sms_result>>

\* send_status_update up to its first asyncio.sleep
send_status_update(c, recipients) ==
    IF Len(recipients) = 0 THEN
        /\ sms_result' = SmsResult("status", "No recipients specified", <<>>, 0, 0, NoCheck)
        /\ UNCHANGED <<sms_sent_count, sms_sent_today, last_sms_reset, sms_calls>>
    ELSE IF ~_prepare_status_message THEN
        /\ sms_result' = SmsResult("status", "Failed to prepare status message", <<>>,
                                   Len(recipients), 0, NoCheck)
        /\ UNCHANGED <<sms_sent_count, sms_sent_today, last_sms_reset, sms_calls>>
    ELSE
        /\ StartCall(c, "status", recipients)
        /\ UNCHANGED <<sms_sent_count, sms_sent_today, last_sms_reset, sms_result>>

\* a new request runs in the first free coroutine slot
FreeCall(c) ==
    /\ sms_calls[c].pc = "idle"
    /\ \A d \in CallIds : d < c => sms_calls[d].pc # "idle"

SendEmergencyAlert ==
    \E c \in CallIds, alert_data \in AlertDatas, recipients \in RecipientLists,
       alert_type \in AlertTypes :
        /\ FreeCall(c)
        /\ send_emergency_alert(c, alert_data, recipients, alert_type)
        /\ UNCHANGED <<now, ttsVars, apiVars, chatVars>>

SendSafetyNotification ==
    \E c \in CallIds, recipients \in RecipientLists,
       notification_type \in NotificationTypes :
        /\ FreeCall(c)
        /\ send_safety_notification(c, recipients, notification_type)
        /\ UNCHANGED <<now, ttsVars, apiVars, chatVars>>

SendStatusUpdate ==
    \E c \in CallIds, recipients \in RecipientLists :
        /\ FreeCall(c)
        /\ send_status_update(c, recipients)
        /\ UNCHANGED <<now, ttsVars, apiVars, chatVars>>

\* a suspended send wakes up from asyncio.sleep: it sends to the next
\* recipient and sleeps again, or counts the successful sends and returns
resume_send(c) ==
        LET call == sms_calls[c]
            successful_sends == Len(SelectSeq(call.results, LAMBDA r : r.success))
        IN
        /\ call.pc = "sleeping"
        /\ IF Len(call.results) < Len(call.recipients) THEN
               /\ sms_calls' = [sms_calls EXCEPT ![c].results =
                      Append(call.results,
                             _send_single_sms(call.recipients[Len(call.results) + 1]))]
               /\ UNCHANGED <<sms_sent_count, sms_sent_today, last_sms_reset, sms_result>>
           ELSE
               /\ sms_sent_count + successful_sends <= MaxCount
               /\ sms_sent_count' = sms_sent_count + successful_sends
               /\ sms_sent_today' = sms_sent_today + successful_sends
               /\ sms_calls' = [sms_calls EXCEPT ![c] = IdleCall]
               /\ sms_result' = SmsResult(call.kind, None, call.results,
                                          Len(call.recipients), successful_sends,
                                          NoCheck)
               /\ UNCHANGED last_sms_reset

reset_counters ==
    /\ sms_sent_count' = 0
    /\ sms_sent_today' = 0
    /\ last_sms_reset' = now
    /\ UNCHANGED <<now, ttsVars, apiVars, chatVars, sms_calls, sms_result>>

SmsTick == Tick /\ UNCHANGED <<ttsVars, smsVars, apiVars, chatVars>>

(***************************************************************************)
(* EmergencyAPI: the severity classifier                                   *)
(***************************************************************************)
\* Optional[str]: <<>> is None, <<text>> is a text
NoText == <<>>
Some(text) == <<text>>

critical_keywords ==
    {<<"h", "u", "r", "t">>,
     <<"p", "a", "i", "n">>,
     <<"b", "l", "e", "e", "d", "i", "n", "g">>,
     <<"u", "n", "c", "o", "n", "s", "c", "i", "o", "u", "s">>,
     <<"n", "o", "t", " ", "b", "r", "e", "a", "t", "h", "i", "n", "g">>,
     <<"c", "h", "o", "k", "i", "n", "g">>,
     <<"f", "i", "r", "e">>,
     <<"e", "x", "p", "l", "o", "s", "i", "o", "n">>,
     <<"w", "e", "a", "p", "o", "n">>,
     <<"g", "u", "n">>,
     <<"k", "n", "i", "f", "e">>,
     <<"a", "t", "t", "a", "c", "k">>,
     <<"a", "s", "s", "a", "u", "l", "t">>,
     <<"k", "i", "d", "n", "a", "p", "p", "i", "n", "g">>,
     <<"m", "i", "s", "s", "i", "n", "g">>,
     <<"l", "o", "s", "t">>}

high_keywords ==
    {<<"s", "c", "a", "r", "e", "d">>,
     <<"a", "f", "r", "a", "i", "d">>,
     <<"t", "h", "r", "e", "a", "t">>,
     <<"d", "a", "n", "g", "e", "r">>,
     <<"b", "u", "l", "l", "y">>,
     <<"h", "a", "r", "a", "s", "s", "m", "e", "n", "t">>,
     <<"a", "b", "u", "s", "e">>,
     <<"t", "o", "u", "c", "h">>,
     <<"p", "r", "i", "v", "a", "t", "e">>,
     <<"s", "e", "c", "r", "e", "t">>,
     <<"f", "o", "l", "l", "o", "w">>,
     <<"s", "t", "r", "a", "n", "g", "e", "r">>}

\* a variant that also lists "missing" among the high words
high_type_words_and_missing ==
    {<<"i", "m", "m", "e", "d", "i", "a", "t", "e">>, <<"d", "a", "n", "g", "e", "r">>,
     <<"m", "e", "d", "i", "c", "a", "l">>, <<"a", "b", "u", "s", "e">>, <<"m", "i", "s", "s", "i", "n", "g">>}

high_type_words ==
    {<<"i", "m", "m", "e", "d", "i", "a", "t", "e">>, <<"d", "a", "n", "g", "e", "r">>,
     <<"m", "e", "d", "i", "c", "a", "l">>, <<"a", "b", "u", "s", "e">>}

medium_type_words ==
    {<<"l", "o", "s", "t">>, <<"m", "i", "s", "s", "i", "n", "g">>, <<"b", "u", "l", "l", "y", "i", "n", "g">>}

UpperToLower ==
    [A |-> "a", B |-> "b", C |-> "c", D |-> "d", E |-> "e", F |-> "f",
     G |-> "g", H |-> "h", I |-> "i", J |-> "j", K |-> "k", L |-> "l",
     M |-> "m", N |-> "n", O |-> "o", P |-> "p", Q |-> "q", R |-> "r",
     S |-> "s", T |-> "t", U |-> "u", V |-> "v", W |-> "w", X |-> "x",
     Y |-> "y", Z |-> "z"]

\* str.lower() on ASCII text
LowerChar(ch) == IF ch \in DOMAIN UpperToLower THEN UpperToLower[ch] ELSE ch
lower(text) == [i \in 1..Len(text) |-> LowerChar(text[i])]

\* keyword in text
Contains(text, keyword) ==
    \E i \in 1..(Len(text) - Len(keyword) + 1) :
        SubSeq(text, i, i + Len(keyword) - 1) = keyword

ContainsAny(text, keywords) == \E keyword \in keywords : Contains(text, keyword)

\* a variant that looks at the high keywords first
determine_emergency_level_high_first(description, emergency_type) ==
    LET description_lower == lower(description) IN
    IF ContainsAny(description_lower, high_keywords) THEN "high"
    ELSE IF ContainsAny(description_lower, critical_keywords) THEN "critical"
    ELSE "medium"

\* emergency_type is an Optional[str]
determine_emergency_level(description, emergency_type) ==
    LET description_lower == lower(description) IN
    IF ContainsAny(description_lower, critical_keywords) THEN "critical"
    ELSE IF ContainsAny(description_lower, high_keywords) THEN "high"
    ELSE IF emergency_type # NoText /\ Len(emergency_type[1]) > 0 THEN
        LET type_lower == lower(emergency_type[1]) IN
        IF ContainsAny(type_lower, high_type_words) THEN "high"
        ELSE IF ContainsAny(type_lower, medium_type_words) THEN "medium"
        ELSE "medium"
    ELSE "medium"

\* words the descriptions of the model are made of
DescriptionWords ==
    {<<"B", "l", "e", "e", "d", "i", "n", "g">>,
     <<"l", "o", "s", "t">>,
     <<"S", "C", "A", "R", "E", "D">>,
     <<"f", "o", "l", "l", "o", "w">>,
     <<"w", "o", "r", "r", "i", "e", "d">>,
     <<"m", "a", "l", "l">>}

\* the descriptions the test suite classifies
LostAtTheMall ==
    <<"I", " ", "g", "o", "t", " ", "l", "o", "s", "t", " ", "a", "t", " ", "t", "h", "e", " ", "m", "a", "l", "l">>
WorriedAboutHomework ==
    <<"I", "'", "m", " ", "w", "o", "r", "r", "i", "e", "d", " ", "a", "b", "o", "u", "t", " ", "m", "y", " ", "h", "o", "m", "e", "w", "o", "r", "k">>
HurtAndBleeding ==
    <<"S", "o", "m", "e", "o", "n", "e", " ", "h", "u", "r", "t", " ", "m", "e", " ", "a", "n", "d", " ", "I", "'", "m", " ", "b", "l", "e", "e", "d", "i", "n", "g">>
ScaredAndFollowed ==
    <<"I", "'", "m", " ", "f", "e", "e", "l", "i", "n", "g", " ", "s", "c", "a", "r", "e", "d", " ", "a", "n", "d", " ", "s", "o", "m", "e", "o", "n", "e", " ", "i", "s", " ", "f", "o", "l", "l", "o", "w", "i", "n", "g", " ", "m", "e">>

Descriptions ==
    DescriptionWords
    \cup {w1 \o <<" ">> \o w2 : w1 \in DescriptionWords, w2 \in DescriptionWords}
    \cup {LostAtTheMall, WorriedAboutHomework, HurtAndBleeding, ScaredAndFollowed}

\* type hints: None, empty, and texts with and without a listed word
Hints ==
    {NoText, Some(<<>>), Some(<<"m", "i", "s", "s", "i", "n", "g">>),
     Some(<<"M", "e", "d", "i", "c", "a", "l", " ", "e", "m", "e", "r", "g", "e", "n", "c", "y">>),
     Some(<<"o", "t", "h", "e", "r">>),
     Some(<<"M", "i", "s", "s", "i", "n", "g", ",", " ", "i", "n", " ", "d", "a", "n", "g", "e", "r">>)}

DetermineEmergencyLevelCall(description, emergency_type) ==
    [called |-> TRUE, description |-> description, emergency_type |-> emergency_type,
     level |-> determine_emergency_level(description, emergency_type)]

\* a direct call of the classifier
DetermineEmergencyLevel ==
    \E description \in Descriptions, emergency_type \in Hints :
        /\ level_result' = DetermineEmergencyLevelCall(description, emergency_type)
        /\ UNCHANGED <<now, ttsVars, chatVars, smsVars, emergency_alerts, em_pending,
                       alerts_created, complaints, complaints_created, http_response>>

\* generate_next_steps: the list of steps, named by the branch that builds it
generate_next_steps(emergency_level) ==
    IF emergency_level = "critical" THEN "critical"
    ELSE IF emergency_level = "high" THEN "high"
    ELSE IF emergency_level = "medium" THEN "medium"
    ELSE "low"

(***************************************************************************)
(* EmergencyAPI: requests, alerts and the trigger handler                  *)
(***************************************************************************)
Blank == <<" ">>
Park == <<"P", "a", "r", "k">>
Mom == <<"M", "o", "m">>
Anonymous == <<"a", "n", "o", "n", "y", "m", "o", "u", "s">>

GoodContact == [name |-> Mom, phone |-> ValidPhone, relationship |-> "parent"]
ShortContact == [name |-> Mom, phone |-> ShortPhone, relationship |-> "parent"]
BlankContact == [name |-> Blank, phone |-> <<>>, relationship |-> "parent"]
RequestDescriptions == {WorriedAboutHomework, HurtAndBleeding}
Timestamps ==
    {NoText,
     Some(<<"2", "0", "2", "4", "-", "0", "1", "-", "1", "5", "T",
            "1", "0", ":", "3", "0", ":", "0", "0", "Z">>)}
EmergencyTypes == {NoText, Some(<<"m", "e", "d", "i", "c", "a", "l">>)}

\* requests that pass validate_emergency_data, and requests that break one
\* of its rules or all of them
ValidEmergencyRequests ==
    [location : {Park}, description : RequestDescriptions,
     contacts : {<<GoodContact>>, <<GoodContact, ShortContact>>},
     timestamp : Timestamps, user_id : {NoText}, emergency_type : EmergencyTypes]
EmergencyRequest ==
    [location |-> Park, description |-> HurtAndBleeding,
     contacts |-> <<GoodContact>>, timestamp |-> NoText, user_id |-> NoText,
     emergency_type |-> NoText]
EmergencyRequests ==
    ValidEmergencyRequests
    \cup {[EmergencyRequest EXCEPT !.location = Blank],
          [EmergencyRequest EXCEPT !.description = <<>>],
          [EmergencyRequest EXCEPT !.contacts = <<>>],
          [EmergencyRequest EXCEPT !.contacts = <<GoodContact, BlankContact>>],
          [EmergencyRequest EXCEPT !.location = <<>>, !.description = Blank,
                                   !.contacts = <<BlankContact>>]}

AlertIds == {1, 2}

\* Optional[str] in a boolean context: None and "" are false
Truthy(text) == text # NoText /\ Len(text[1]) > 0

validate_emergency_data(data) ==
    LET contact_errors[i \in 0..Len(data.contacts)] ==
            IF i = 0 THEN <<>>
            ELSE contact_errors[i - 1]
                 \o (IF strip(data.contacts[i].name) = <<>>
                     THEN <<"Contact name is required">> ELSE <<>>)
                 \o (IF strip(data.contacts[i].phone) = <<>>
                     THEN <<"Contact phone number is required">> ELSE <<>>)
    IN  (IF strip(data.location) = <<>> THEN <<"Location is required">> ELSE <<>>)
        \o (IF strip(data.description) = <<>>
            THEN <<"Emergency description is required">> ELSE <<>>)
        \o (IF Len(data.contacts) = 0
            THEN <<"At least one emergency contact is required">>
            ELSE contact_errors[Len(data.contacts)])

\* the keys of alert_data in send_emergency_notifications
NotificationData ==
    {"child_name", "location", "contact_number", "priority", "description",
     "incident_type", "status", "update_type"}

\* recipients = [c.phone for c in alert.contacts if c.phone]
NotificationRecipients(contacts) ==
    LET with_phone == SelectSeq(contacts, LAMBDA c : Len(c.phone) > 0)
    IN  [i \in 1..Len(with_phone) |-> with_phone[i].phone]

\* a variant that marks every contact by the outcome of the whole send
MappedContactsBySendOutcome(contacts, results) ==
    [idx \in 1..Len(contacts) |->
        [name |-> contacts[idx].name, phone |-> contacts[idx].phone,
         relationship |-> contacts[idx].relationship,
         status |-> IF \E i \in 1..Len(results) : results[i].success
                    THEN "sent" ELSE "failed"]]

\* mapped: one item per contact; results is result.get("results", [])
MappedContacts(contacts, results) ==
    [idx \in 1..Len(contacts) |->
        [name |-> contacts[idx].name, phone |-> contacts[idx].phone,
         relationship |-> contacts[idx].relationship,
         status |-> IF idx <= Len(results) /\ results[idx].success
                    THEN "sent" ELSE "failed"]]

NoBody == [id |-> 0]
NoDetail == [head |-> None, errors |-> <<>>]
\* the request a routed response answers: method, path below the router's
\* prefix split at "/", and the status query parameter
NoRequest == [method |-> None, path |-> <<>>, status |-> None]

HTTPException(status_code, head, errors) ==
    [status_code |-> status_code, detail |-> [head |-> head, errors |-> errors]]

\* except Exception as e: ... raise HTTPException(status_code=500, ...)
\* catches every exception of the try block, an HTTPException included
ExceptException(raised) == HTTPException(500, "Internal server error", <<>>)

\* the response to a request whose handler raised; violations is the number
\* of errors the handler's validation found
ErrorResponse(api, raised, violations) ==
    [api |-> api, status |-> raised.status_code, detail |-> raised.detail,
     violations |-> violations, body |-> NoBody,
     request |-> NoRequest, handler |-> None]

OkResponse(api, body) ==
    [api |-> api, status |-> 200, detail |-> NoDetail, violations |-> 0,
     body |-> body, request |-> NoRequest, handler |-> None]

\* alert is the handler's local EmergencyAlert object: the object the store
\* holds under alert_id until that entry is deleted
NotAwaited ==
    [alert_id |-> 0, emergency_level |-> None, request |-> NoBody, alert |-> NoBody]

EmergencyResponse(alert_id, emergency_level, contacts_notified, request) ==
    [id |-> alert_id, status |-> "active", emergency_level |-> emergency_level,
     contacts_notified |-> contacts_notified,
     next_steps |-> generate_next_steps(emergency_level), request |-> request]

\* process_emergency up to the first suspension of send_emergency_alert, or
\* to its response when the send is refused
process_emergency(c, request) ==
    LET errors == validate_emergency_data(request)
        alert_id == alerts_created + 1
        emergency_level == determine_emergency_level(request.description,
                                                     request.timestamp)
        alert == [alert_id |-> alert_id,
                  user_id |-> IF Truthy(request.user_id) THEN request.user_id[1]
                              ELSE Anonymous,
                  location |-> request.location,
                  description |-> request.description,
                  contacts |-> request.contacts,
                  timestamp |-> IF Truthy(request.timestamp)
                                THEN [text |-> request.timestamp[1], clock |-> 0]
                                ELSE [text |-> <<>>, clock |-> now],
                  status |-> "active",
                  emergency_level |-> emergency_level,
                  contacts_notified |-> <<>>,
                  next_steps |-> generate_next_steps(emergency_level)]
        refused == MappedContacts(alert.contacts, <<>>)
    IN
    IF errors # <<>> THEN
        /\ http_response' = ErrorResponse("emergency",
               ExceptException(HTTPException(400, "Validation errors", errors)),
               Len(errors))
        /\ UNCHANGED <<smsVars, level_result, emergency_alerts, em_pending,
                       alerts_created>>
    ELSE
        /\ alert_id \in AlertIds
        /\ FreeCall(c)
        /\ alerts_created' = alert_id
        /\ level_result' = DetermineEmergencyLevelCall(request.description,
                                                        request.timestamp)
        /\ send_emergency_alert(c, NotificationData,
                                NotificationRecipients(alert.contacts), "sos_alert")
        /\ IF sms_calls'[c].pc = "sleeping" THEN
               /\ emergency_alerts' = (alert_id :> alert) @@ emergency_alerts
               /\ em_pending' = [em_pending EXCEPT ![c] =
                      [alert_id |-> alert_id, emergency_level |-> emergency_level,
                       request |-> request, alert |-> alert]]
               /\ UNCHANGED http_response
           ELSE
               /\ emergency_alerts' =
                      (alert_id :> [alert EXCEPT !.contacts_notified = refused])
                      @@ emergency_alerts
               /\ http_response' = OkResponse("emergency",
                      EmergencyResponse(alert_id, emergency_level, refused, request))
               /\ UNCHANGED em_pending

\* POST /api/emergency/ and POST /api/emergency
TriggerEmergency ==
    \E c \in CallIds, request \in EmergencyRequests :
        /\ c = 1 \/ validate_emergency_data(request) = <<>>
        /\ process_emergency(c, request)
        /\ UNCHANGED <<now, ttsVars, chatVars, complaints, complaints_created>>

\* the rest of process_emergency, run when the awaited send returns:
\* alert.contacts_notified = ...; self.emergency_alerts[alert_id] = alert
process_emergency_resumed(c) ==
    LET awaited == em_pending[c]
        alert == awaited.alert
        contacts_notified == MappedContacts(alert.contacts, sms_calls[c].results)
    IN
    /\ emergency_alerts' =
           (awaited.alert_id :> [alert EXCEPT !.contacts_notified = contacts_notified])
           @@ emergency_alerts
    /\ em_pending' = [em_pending EXCEPT ![c] = NotAwaited]
    /\ http_response' = OkResponse("emergency",
           EmergencyResponse(awaited.alert_id, awaited.emergency_level,
                             contacts_notified, awaited.request))
    /\ UNCHANGED <<level_result, alerts_created, complaints, complaints_created>>

\* a suspended send wakes up from asyncio.sleep: it sends to the next
\* recipient and sleeps again, or counts the successful sends and returns
\* to its caller
SmsResume ==
    \E c \in CallIds :
        /\ resume_send(c)
        /\ IF sms_calls'[c].pc = "idle" /\ em_pending[c].alert_id # 0
           THEN process_emergency_resumed(c)
           ELSE UNCHANGED apiVars
        /\ UNCHANGED <<now, ttsVars, chatVars>>

(***************************************************************************)
(* ComplaintAPI: validation and the submit handler                         *)
(***************************************************************************)
Kid == <<"K", "i", "d">>
Incident == <<"p", "u", "s", "h", "e", "d">>
\* requests that pass validate_complaint_data, and requests that break one
\* of its rules or all of them
ValidComplaintRequests ==
    [child_name : {Kid}, child_age : {1, 18}, incident_description : {Incident},
     location : {Park}, guardian_name : {Mom}, guardian_phone : {ValidPhone}]
ComplaintRequest ==
    [child_name |-> Kid, child_age |-> 18, incident_description |-> Incident,
     location |-> Park, guardian_name |-> Mom, guardian_phone |-> ValidPhone]
ComplaintRequests ==
    ValidComplaintRequests
    \cup {[ComplaintRequest EXCEPT !.child_name = Blank],
          [ComplaintRequest EXCEPT !.child_age = 0],
          [ComplaintRequest EXCEPT !.child_age = 19],
          [ComplaintRequest EXCEPT !.incident_description = <<>>],
          [ComplaintRequest EXCEPT !.location = Blank],
          [ComplaintRequest EXCEPT !.guardian_name = <<>>],
          [ComplaintRequest EXCEPT !.guardian_phone = Blank],
          [child_name |-> <<>>, child_age |-> 0, incident_description |-> Blank,
           location |-> <<>>, guardian_name |-> Blank, guardian_phone |-> <<>>]}
ComplaintIds == {1}

\* what generate_complaint_draft returns: the draft of the AI provider, or
\* the template when the provider fails or answers nothing
DraftSources == {"gpt", "template"}

validate_complaint_data(data) ==
    (IF strip(data.child_name) = <<>> THEN <<"Child's name is required">> ELSE <<>>)
    \o (IF data.child_age < 1 \/ data.child_age > 18
        THEN <<"Child's age must be between 1 and 18">> ELSE <<>>)
    \o (IF strip(data.incident_description) = <<>>
        THEN <<"Incident description is required">> ELSE <<>>)
    \o (IF strip(data.location) = <<>> THEN <<"Location is required">> ELSE <<>>)
    \o (IF strip(data.guardian_name) = <<>>
        THEN <<"Guardian's name is required">> ELSE <<>>)
    \o (IF strip(data.guardian_phone) = <<>>
        THEN <<"Guardian's phone number is required">> ELSE <<>>)

\* the handler touches the store once, after the draft is there
process_complaint(request, complaint_text) ==
    LET errors == validate_complaint_data(request)
        complaint_id == complaints_created + 1
        complaint_data == [complaint_id |-> complaint_id,
                           status |-> "Draft Generated",
                           complaint_text |-> complaint_text,
                           request_data |-> request,
                           updated_at |-> 0 - 1]
    IN
    IF errors # <<>> THEN
        /\ http_response' = ErrorResponse("complaint",
               ExceptException(HTTPException(400, "Validation errors", errors)),
               Len(errors))
        /\ UNCHANGED <<complaints, complaints_created>>
    ELSE
        /\ complaint_id \in ComplaintIds
        /\ complaints_created' = complaint_id
        /\ complaints' = (complaint_id :> complaint_data) @@ complaints
        /\ http_response' = OkResponse("complaint",
               [id |-> complaint_id, status |-> complaint_data.status,
                complaint_text |-> complaint_text])

\* POST /api/complaint/ and POST /api/complaint
SubmitComplaint ==
    \E request \in ComplaintRequests, complaint_text \in DraftSources :
        /\ process_complaint(request, complaint_text)
        /\ UNCHANGED <<now, ttsVars, chatVars, smsVars, level_result, emergency_alerts,
                       em_pending, alerts_created>>

(***************************************************************************)
(* Routing: the route tables of the emergency and complaint routers, and   *)
(* the handlers behind them                                                *)
(***************************************************************************)
\* a path is the sequence of its segments below the router's prefix:
\* "" is <<>>, "/" is <<"">>, "/{alert_id}/status" is <<"{alert_id}", "status">>
IsParam(segment) == segment \in {"{alert_id}", "{complaint_id}", "{format_type}"}

\* a path parameter matches one non-empty segment
Matches(pattern, path) ==
    /\ Len(pattern) = Len(path)
    /\ \A i \in 1..Len(path) :
           IF IsParam(pattern[i]) THEN path[i] # "" ELSE pattern[i] = path[i]

Route(method, path, endpoint) ==
    [method |-> method, path |-> path, endpoint |-> endpoint]

\* the decorators of emergency.py, in the order they are executed
emergency_routes ==
    <<Route("POST", <<"">>, "trigger_emergency"),
      Route("POST", <<>>, "trigger_emergency_root"),
      Route("GET", <<"{alert_id}">>, "get_emergency_alert"),
      Route("GET", <<"">>, "get_all_emergency_alerts"),
      Route("GET", <<"{alert_id}", "status">>, "get_alert_status"),
      Route("PUT", <<"{alert_id}", "status">>, "update_alert_status"),
      Route("GET", <<"statistics">>, "get_emergency_statistics"),
      Route("DELETE", <<"{alert_id}">>, "delete_emergency_alert"),
      Route("GET", <<"health">>, "health_check")>>

\* the decorators of complaint.py, in the order they are executed
complaint_routes ==
    <<Route("POST", <<"">>, "submit_complaint"),
      Route("POST", <<>>, "submit_complaint_root"),
      Route("GET", <<"{complaint_id}">>, "get_complaint"),
      Route("GET", <<"">>, "get_all_complaints"),
      Route("GET", <<"{complaint_id}", "download", "{format_type}">>, "download_document"),
      Route("GET", <<"{complaint_id}", "pdf">>, "download_pdf"),
      Route("GET", <<"{complaint_id}", "word">>, "download_word"),
      Route("PUT", <<"{complaint_id}", "status">>, "update_status"),
      Route("DELETE", <<"{complaint_id}">>, "delete_complaint"),
      Route("GET", <<"health">>, "health_check")>>

\* the router hands a request to the first route, in order of declaration,
\* whose method and path both fit
Dispatch(routes, method, path) ==
    LET fits == {i \in 1..Len(routes) :
                    routes[i].method = method /\ Matches(routes[i].path, path)}
    IN  IF fits = {} THEN "not_found"
        ELSE routes[CHOOSE i \in fits : \A j \in fits : i <= j].endpoint

Routed(response, method, path, status, endpoint) ==
    [response EXCEPT !.request = [method |-> method, path |-> path, status |-> status],
                     !.handler = endpoint]

NotFound(api) == ErrorResponse(api, HTTPException(404, "Not Found", <<>>), 0)

\* the unhandled exception of a handler without an except clause
InternalServerError(api) ==
    ErrorResponse(api, HTTPException(500, "Internal Server Error", <<>>), 0)

\* the alert ids create_alert_id has handed out, as they appear in a path
AlertIdText == <<"EMG_1", "EMG_2">>
\* the key of emergency_alerts a path segment names, 0 when it names none
AlertKey(segment) ==
    IF \E i \in AlertIds : AlertIdText[i] = segment
    THEN CHOOSE i \in AlertIds : AlertIdText[i] = segment ELSE 0

AlertStatuses == {"resolved"}

EmergencyAlertNotFound ==
    ErrorResponse("emergency", HTTPException(404, "Emergency alert not found", <<>>), 0)

ActiveAlerts == {i \in DOMAIN emergency_alerts : emergency_alerts[i].status = "active"}

\* EmergencyAPI.get_emergency_alert behind GET /{alert_id}
get_emergency_alert(alert_id) ==
    IF AlertKey(alert_id) \notin DOMAIN emergency_alerts THEN EmergencyAlertNotFound
    ELSE OkResponse("emergency", emergency_alerts[AlertKey(alert_id)])

get_all_emergency_alerts == OkResponse("emergency", [alerts |-> emergency_alerts])

get_alert_status(alert_id) ==
    IF AlertKey(alert_id) \notin DOMAIN emergency_alerts THEN EmergencyAlertNotFound
    ELSE LET alert == emergency_alerts[AlertKey(alert_id)]
         IN  OkResponse("emergency",
                 [alert_id |-> alert.alert_id, status |-> alert.status,
                  emergency_level |-> alert.emergency_level,
                  timestamp |-> alert.timestamp,
                  contacts_notified |-> alert.contacts_notified])

\* get_alert_statistics (the per-level and last-24-hours counts are left out)
get_emergency_statistics ==
    OkResponse("emergency",
        [total_alerts |-> Cardinality(DOMAIN emergency_alerts),
         active_alerts |-> Cardinality(ActiveAlerts),
         resolved_alerts |-> Cardinality(DOMAIN emergency_alerts)
                                 - Cardinality(ActiveAlerts)])

emergency_health_check ==
    OkResponse("emergency",
        [status |-> "healthy", service |-> "emergency",
         active_alerts |-> Cardinality(ActiveAlerts),
         total_alerts |-> Cardinality(DOMAIN emergency_alerts)])

\* the reading GET paths of the model
EmergencyGetPaths ==
    {<<"">>, <<"statistics">>, <<"health">>}
    \cup {<<AlertIdText[i]>> : i \in AlertIds}
    \cup {<<AlertIdText[i], "status">> : i \in AlertIds}

\* GET below /api/emergency: dispatch, then the handler
emergency_get(routes, path) ==
    LET endpoint == Dispatch(routes, "GET", path)
        response ==
            CASE endpoint = "get_emergency_alert" -> get_emergency_alert(path[1])
              [] endpoint = "get_all_emergency_alerts" -> get_all_emergency_alerts
              [] endpoint = "get_alert_status" -> get_alert_status(path[1])
              [] endpoint = "get_emergency_statistics" -> get_emergency_statistics
              [] endpoint = "health_check" -> emergency_health_check
              [] OTHER -> NotFound("emergency")
    IN  http_response' = Routed(response, "GET", path, None, endpoint)

EmergencyGet ==
    \E path \in EmergencyGetPaths :
        /\ emergency_get(emergency_routes, path)
        /\ UNCHANGED <<now, ttsVars, smsVars, chatVars, level_result, emergency_alerts,
                       em_pending, alerts_created, complaints, complaints_created>>

\* EmergencyAPI.update_alert_status behind PUT /{alert_id}/status?status=...
\* EmergencyAlert declares no field updated_at: the assignment to it raises
\* ValueError after alert.status has been assigned, and the route has no
\* except clause
update_alert_status(alert_id, status) ==
    IF AlertKey(alert_id) \notin DOMAIN emergency_alerts THEN
        /\ http_response' = Routed(EmergencyAlertNotFound, "PUT",
               <<alert_id, "status">>, status, "update_alert_status")
        /\ UNCHANGED <<emergency_alerts, em_pending>>
    ELSE
        /\ emergency_alerts' =
               [emergency_alerts EXCEPT ![AlertKey(alert_id)].status = status]
        /\ em_pending' =
               [c \in CallIds |->
                   IF em_pending[c].alert_id = AlertKey(alert_id)
                   THEN [em_pending[c] EXCEPT !.alert.status = status]
                   ELSE em_pending[c]]
        /\ http_response' = Routed(InternalServerError("emergency"), "PUT",
               <<alert_id, "status">>, status, "update_alert_status")

UpdateAlertStatus ==
    \E i \in AlertIds, status \in AlertStatuses :
        /\ Dispatch(emergency_routes, "PUT", <<AlertIdText[i], "status">>)
               = "update_alert_status"
        /\ update_alert_status(AlertIdText[i], status)
        /\ UNCHANGED <<now, ttsVars, smsVars, chatVars, level_result,
                       alerts_created, complaints, complaints_created>>

\* delete_emergency_alert behind DELETE /{alert_id}
delete_emergency_alert(alert_id) ==
    LET key == AlertKey(alert_id)
    IN  IF key \in DOMAIN emergency_alerts THEN
            /\ emergency_alerts' =
                   [k \in DOMAIN emergency_alerts \ {key} |-> emergency_alerts[k]]
            /\ http_response' = Routed(
                   OkResponse("emergency",
                              [message |-> "Emergency alert deleted successfully"]),
                   "DELETE", <<alert_id>>, None, "delete_emergency_alert")
        ELSE
            /\ http_response' = Routed(EmergencyAlertNotFound,
                   "DELETE", <<alert_id>>, None, "delete_emergency_alert")
            /\ UNCHANGED emergency_alerts

DeleteEmergencyAlert ==
    \E i \in AlertIds :
        /\ Dispatch(emergency_routes, "DELETE", <<AlertIdText[i]>>)
               = "delete_emergency_alert"
        /\ delete_emergency_alert(AlertIdText[i])
        /\ UNCHANGED <<now, ttsVars, smsVars, chatVars, level_result, em_pending,
                       alerts_created, complaints, complaints_created>>

\* the complaint ids create_complaint_id has handed out, as they appear in a
\* path, and the key of complaints a path segment names (0: none)
ComplaintIdText == <<"COMP_1">>
ComplaintKey(segment) ==
    IF \E i \in ComplaintIds : ComplaintIdText[i] = segment
    THEN CHOOSE i \in ComplaintIds : ComplaintIdText[i] = segment ELSE 0

ComplaintStatuses == {"under_review"}
FormatTypes == {"pdf", "txt"}
\* what building the ComplaintData model and rendering it may do: return a
\* document, report a failure, or raise
DocumentOutcomes == {"document", "failed", "raises"}

ComplaintNotFound == HTTPException(404, "Complaint not found", <<>>)

\* ComplaintAPI.generate_document: what the call does (it returns, raises an
\* HTTPException or raises another exception) and the exception raised
generate_document(complaint_id, fmt, outcome) ==
    IF ComplaintKey(complaint_id) \notin DOMAIN complaints
    THEN [does |-> "HTTPException", raised |-> ComplaintNotFound]
    ELSE IF outcome = "raises"
    THEN [does |-> "Exception", raised |-> ComplaintNotFound]
    ELSE IF outcome = "failed"
    THEN [does |-> "HTTPException",
          raised |-> HTTPException(500, "Document generation failed", <<>>)]
    ELSE [does |-> "return", raised |-> ComplaintNotFound]

Document(complaint_id, fmt) ==
    OkResponse("complaint", [id |-> ComplaintKey(complaint_id), format |-> fmt])

get_complaint(complaint_id) ==
    IF ComplaintKey(complaint_id) \notin DOMAIN complaints
    THEN ErrorResponse("complaint", ComplaintNotFound, 0)
    ELSE OkResponse("complaint", complaints[ComplaintKey(complaint_id)])

get_all_complaints == OkResponse("complaint", [complaints |-> complaints])

\* except HTTPException: raise; except Exception: 500
download_document(complaint_id, format_type, outcome) ==
    LET generated == generate_document(complaint_id, format_type, outcome)
    IN  IF format_type \notin {"pdf", "docx"}
        THEN ErrorResponse("complaint", HTTPException(400, "Unsupported format", <<>>), 0)
        ELSE IF generated.does = "HTTPException"
        THEN ErrorResponse("complaint", generated.raised, 0)
        ELSE IF generated.does = "Exception"
        THEN ErrorResponse("complaint",
                 HTTPException(500, "Error serving document", <<>>), 0)
        ELSE Document(complaint_id, format_type)

\* the legacy endpoints have the except Exception clause only, and an
\* HTTPException is an Exception
download_pdf(complaint_id, outcome) ==
    LET generated == generate_document(complaint_id, "pdf", outcome)
    IN  IF generated.does # "return"
        THEN ErrorResponse("complaint", HTTPException(500, "Error serving PDF", <<>>), 0)
        ELSE Document(complaint_id, "pdf")

download_word(complaint_id, outcome) ==
    LET generated == generate_document(complaint_id, "docx", outcome)
    IN  IF generated.does # "return"
        THEN ErrorResponse("complaint",
                 HTTPException(500, "Error serving Word document", <<>>), 0)
        ELSE Document(complaint_id, "docx")

complaint_health_check ==
    OkResponse("complaint",
        [status |-> "healthy", service |-> "complaint",
         total_complaints |-> Cardinality(DOMAIN complaints)])

ComplaintGetPaths ==
    {<<"">>, <<"health">>}
    \cup {<<ComplaintIdText[i]>> : i \in ComplaintIds}
    \cup {<<ComplaintIdText[i], "pdf">> : i \in ComplaintIds}
    \cup {<<ComplaintIdText[i], "word">> : i \in ComplaintIds}
    \cup {<<ComplaintIdText[i], "download", f>> : i \in ComplaintIds, f \in FormatTypes}

\* GET below /api/complaint: dispatch, then the handler
complaint_get(routes, path, outcome) ==
    LET endpoint == Dispatch(routes, "GET", path)
        response ==
            CASE endpoint = "get_complaint" -> get_complaint(path[1])
              [] endpoint = "get_all_complaints" -> get_all_complaints
              [] endpoint = "download_document" ->
                     download_document(path[1], path[3], outcome)
              [] endpoint = "download_pdf" -> download_pdf(path[1], outcome)
              [] endpoint = "download_word" -> download_word(path[1], outcome)
              [] endpoint = "health_check" -> complaint_health_check
              [] OTHER -> NotFound("complaint")
    IN  http_response' = Routed(response, "GET", path, None, endpoint)

ComplaintGet ==
    \E path \in ComplaintGetPaths, outcome \in DocumentOutcomes :
        /\ complaint_get(complaint_routes, path, outcome)
        /\ UNCHANGED <<now, ttsVars, smsVars, chatVars, level_result, emergency_alerts,
                       em_pending, alerts_created, complaints, complaints_created>>

\* ComplaintAPI.update_complaint_status behind PUT /{complaint_id}/status
update_complaint_status(complaint_id, status) ==
    LET key == ComplaintKey(complaint_id)
    IN  IF key \notin DOMAIN complaints THEN
            /\ http_response' = Routed(ErrorResponse("complaint", ComplaintNotFound, 0),
                   "PUT", <<complaint_id, "status">>, status, "update_status")
            /\ UNCHANGED complaints
        ELSE
            /\ complaints' = [complaints EXCEPT ![key].status = status,
                                                ![key].updated_at = now]
            /\ http_response' = Routed(OkResponse("complaint", complaints'[key]),
                   "PUT", <<complaint_id, "status">>, status, "update_status")

UpdateComplaintStatus ==
    \E i \in ComplaintIds, status \in ComplaintStatuses :
        /\ Dispatch(complaint_routes, "PUT", <<ComplaintIdText[i], "status">>)
               = "update_status"
        /\ update_complaint_status(ComplaintIdText[i], status)
        /\ UNCHANGED <<now, ttsVars, smsVars, chatVars, level_result, emergency_alerts,
                       em_pending, alerts_created, complaints_created>>

\* DELETE /{complaint_id}
delete_complaint(complaint_id) ==
    LET key == ComplaintKey(complaint_id)
    IN  IF key \in DOMAIN complaints THEN
            /\ complaints' = [k \in DOMAIN complaints \ {key} |-> complaints[k]]
            /\ http_response' = Routed(
                   OkResponse("complaint", [message |-> "Complaint deleted successfully"]),
                   "DELETE", <<complaint_id>>, None, "delete_complaint")
        ELSE
            /\ http_response' = Routed(ErrorResponse("complaint", ComplaintNotFound, 0),
                   "DELETE", <<complaint_id>>, None, "delete_complaint")
            /\ UNCHANGED complaints

DeleteComplaint ==
    \E i \in ComplaintIds :
        /\ Dispatch(complaint_routes, "DELETE", <<ComplaintIdText[i]>>)
               = "delete_complaint"
        /\ delete_complaint(ComplaintIdText[i])
        /\ UNCHANGED <<now, ttsVars, smsVars, chatVars, level_result, emergency_alerts,
                       em_pending, alerts_created, complaints_created>>

(***************************************************************************)
(* Chatbot API (backend/api/chatbot.py) and GPTService                     *)
(***************************************************************************)
\* Field(..., min_length=1, max_length=1000) of ChatMessage.message
min_length == 1
max_length == 1000

TaggedOk == <<"<", "b", ">", "o", "k">>
OnlyTag == <<"<", "b", ">">>
TooLong == [i \in 1..(max_length + 1) |-> "a"]
ChatMessages == {<<>>, TooLong, Blank, OnlyTag, TaggedOk}

\* session ids a client sends, and the ids _generate_session_id hands out
ClientSessionIds == {"s1"}
GeneratedSessionIds == <<"g1">>
\* the ids that the session requests of the model address
SessionIds == ClientSessionIds
ChatCallIds == {1, 2}
HistoryLimits == {0, 1, 50}

\* what the awaited provider.chat does: it answers with content, answers
\* with no content, or raises
ProviderContents == {<<"B", "e", " ", "s", "a", "f", "e">>}
ProviderOutcomes ==
    {[kind |-> "content", content |-> content] : content \in ProviderContents}
    \cup {[kind |-> "empty", content |-> <<>>], [kind |-> "raises", content |-> <<>>]}

\* provider names: AI_PROVIDER is unset in the modelled deployment
Openai == <<"o", "p", "e", "n", "a", "i">>
Aiml == <<"a", "i", "m", "l">>
AI_PROVIDER == Openai
\* the provider names a client posts
ProviderConfigs == {Openai, Aiml, <<"A", "I", "M", "L">>, <<"g", "p", "t">>}

\* AIManager._build_provider: the class of the provider object
_build_provider(name) ==
    IF name = Aiml THEN "AIMLProvider" ELSE "OpenAIProvider"

\* AIManager.__init__
AIManager ==
    [provider_name |-> lower(AI_PROVIDER), _provider |-> _build_provider(lower(AI_PROVIDER))]

get_provider(manager) == manager._provider

\* AIManager.set_provider for a supported name (name is lower-cased)
set_provider(manager, name) ==
    [provider_name |-> name, _provider |-> _build_provider(name)]

\* AIManager.get_config (the credentials of the provider are left out)
get_config(manager) == [provider |-> manager.provider_name]

\* GET /api/config/ai: the module's own ai_manager = AIManager()
get_ai_config ==
    /\ http_response' = Routed(OkResponse("config", get_config(ai_managers.config)),
                               "GET", <<"ai">>, None, "get_ai_config")
    /\ UNCHANGED ai_managers

\* POST /api/config/ai
set_ai_config(provider) ==
    LET name == lower(provider)
    IN  IF name \notin {Openai, Aiml} THEN
            /\ http_response' = Routed(
                   ErrorResponse("config",
                       HTTPException(400, "Unsupported provider", <<>>), 0),
                   "POST", <<"ai">>, None, "set_ai_config")
            /\ UNCHANGED ai_managers
        ELSE
            /\ ai_managers' = [ai_managers EXCEPT
                   !.config = set_provider(ai_managers.config, name)]
            /\ http_response' = Routed(
                   OkResponse("config", get_config(ai_managers'.config)),
                   "POST", <<"ai">>, None, "set_ai_config")

GetAiConfig ==
    /\ get_ai_config
    /\ UNCHANGED <<now, ttsVars, smsVars, level_result, emergency_alerts, em_pending,
                   alerts_created, complaints, complaints_created,
                   chat_sessions, chat_calls, sessions_generated, chat_response>>

SetAiConfig ==
    \E provider \in ProviderConfigs :
        /\ set_ai_config(provider)
        /\ UNCHANGED <<now, ttsVars, smsVars, level_result, emergency_alerts, em_pending,
                       alerts_created, complaints, complaints_created,
                       chat_sessions, chat_calls, sessions_generated, chat_response>>

\* GPTService.fallback_responses["general"]; a fixed text is a one-piece text
fallback_responses ==
    [general |->
        {<<"I'm here to help you learn about safety. What specific question do you have?">>,
         <<"That's a great question about safety. Let me help you understand this better.">>,
         <<"Safety is important for everyone. I'm happy to help you learn more.">>}]

\* _get_fallback_response: random.choice picks any of the texts
_get_fallback_response(outcome, fallback_response) ==
    [success |-> FALSE, response |-> fallback_response, fallback |-> TRUE,
     provider |-> outcome.kind]

\* chat_history[-10:]
history_limit == 10
LastMessages(chat_history, n) ==
    IF Len(chat_history) <= n THEN chat_history
    ELSE SubSeq(chat_history, Len(chat_history) - n + 1, Len(chat_history))

\* the entry of the context that a history message becomes
ContextMessage(msg) == [role |-> msg.role, content |-> msg.content]

SystemMessage == [role |-> "system", content |-> <<"system prompt">>]

\* _prepare_conversation_context: the system prompt, the last ten messages
\* of chat_history with role user or assistant, then the current message
_prepare_conversation_context(message, chat_history) ==
    LET recent == SelectSeq(LastMessages(chat_history, history_limit),
                            LAMBDA msg : msg.role \in {"user", "assistant"})
    IN  <<SystemMessage>>
        \o [i \in 1..Len(recent) |-> ContextMessage(recent[i])]
        \o <<[role |-> "user", content |-> message]>>

\* get_chatbot_response after provider.chat has returned or raised
get_chatbot_response(outcome, fallback_response) ==
    IF outcome.kind = "raises" THEN _get_fallback_response(outcome, fallback_response)
    ELSE IF Len(outcome.content) = 0
         THEN _get_fallback_response(outcome, fallback_response)
    ELSE [success |-> TRUE, response |-> clean_text(outcome.content),
          fallback |-> FALSE, provider |-> outcome.kind]

\* a suspended handler; stale records that its session has been deleted
\* since the request came in
IdleChat ==
    [pc |-> "idle", session_id |-> None, stale |-> FALSE, provider |-> None,
     messages |-> <<>>]

NoSessionBody == [message_count |-> 0, returned |-> 0]

\* a response of the chatbot API; provider records what the provider call
\* of the request did, rejected the message of a chat request that was
\* refused, seq alternates with every response
ChatResponse(op, session_id, status, detail, ai, body) ==
    [op |-> op, session_id |-> session_id, status |-> status, detail |-> detail,
     success |-> ai.success, response |-> ai.response, fallback |-> ai.fallback,
     provider |-> ai.provider, body |-> body, rejected |-> NoText,
     seq |-> 1 - chat_response.seq]

NoAi == [success |-> FALSE, response |-> <<>>, fallback |-> FALSE, provider |-> None]

ChatError(op, session_id, status, detail) ==
    ChatResponse(op, session_id, status, detail, NoAi, NoSessionBody)

\* the response to a chat request refused because of its message
ChatRejection(session_id, status, detail, message) ==
    [ChatError("chat", session_id, status, detail) EXCEPT !.rejected = Some(message)]

\* a variant in which a new session starts from a message left behind
NewSessionWithLeftover ==
    [user_id |-> "anonymous", created_at |-> now, last_activity |-> now,
     message_count |-> 1, status |-> "active",
     messages |-> <<[role |-> "assistant", content |-> <<"o", "k">>,
                     stale |-> FALSE]>>]

NewSession ==
    [user_id |-> "anonymous", created_at |-> now, last_activity |-> now,
     message_count |-> 0, status |-> "active", messages |-> <<>>]

FreeChatCall(c) ==
    /\ chat_calls[c].pc = "idle"
    /\ \A d \in ChatCallIds : d < c => chat_calls[d].pc # "idle"

\* replies still awaited for a session
AwaitedReplies(session_id) ==
    Cardinality({c \in ChatCallIds : chat_calls[c].pc = "awaiting"
                                     /\ chat_calls[c].session_id = session_id})

\* a variant that creates or touches the session before it looks at the
\* cleaned message
chat_with_bot_session_first(message, session_id) ==
    LET cleaned_message == clean_text(message)
        generated == session_id = None
        sid == IF generated THEN GeneratedSessionIds[sessions_generated + 1]
               ELSE session_id
        known == sid \in DOMAIN chat_sessions
        session == IF known THEN chat_sessions[sid] ELSE NewSession
        user_message == [role |-> "user", content |-> cleaned_message,
                         stale |-> FALSE]
    IN
    IF Len(message) < min_length \/ Len(message) > max_length THEN
        /\ chat_response' = ChatRejection(session_id, 422, "validation error", message)
        /\ UNCHANGED <<chat_sessions, chat_calls, sessions_generated>>
    ELSE IF Len(strip(message)) = 0 THEN
        /\ chat_response' = ChatRejection(session_id, 400, "Message cannot be empty",
                                          message)
        /\ UNCHANGED <<chat_sessions, chat_calls, sessions_generated>>
    ELSE IF Len(cleaned_message) = 0 THEN
        /\ ~generated
        /\ chat_response' = ChatRejection(session_id, 400,
                                          "Message contains invalid content", message)
        /\ chat_sessions' = (sid :> [session EXCEPT !.last_activity = now,
                                 !.message_count = session.message_count + 1])
                            @@ chat_sessions
        /\ UNCHANGED <<chat_calls, sessions_generated>>
    ELSE
        /\ generated => sessions_generated < Len(GeneratedSessionIds)
        /\ Len(session.messages) + 2 * AwaitedReplies(sid) + 2 <= MaxMessages
        /\ sessions_generated' = IF generated THEN sessions_generated + 1
                                 ELSE sessions_generated
        /\ chat_sessions' = (sid :> [session EXCEPT
               !.last_activity = now,
               !.message_count = session.message_count + 1,
               !.messages = Append(session.messages, user_message)])
               @@ chat_sessions
        /\ \E c \in ChatCallIds :
               /\ FreeChatCall(c)
               /\ chat_calls' = [chat_calls EXCEPT ![c] =
                      [pc |-> "awaiting", session_id |-> sid, stale |-> FALSE,
                       provider |-> get_provider(ai_managers.gpt_service),
                       messages |-> _prepare_conversation_context(
                           cleaned_message, chat_sessions'[sid].messages)]]
        /\ UNCHANGED chat_response

\* chat_with_bot up to the suspension in provider.chat, or to its error
\* response; session_id is None when the request carries none
chat_with_bot(message, session_id) ==
    LET cleaned_message == clean_text(message)
        generated == session_id = None
        sid == IF generated THEN GeneratedSessionIds[sessions_generated + 1]
               ELSE session_id
        known == sid \in DOMAIN chat_sessions
        session == IF known THEN chat_sessions[sid] ELSE NewSession
        user_message == [role |-> "user", content |-> cleaned_message,
                         stale |-> FALSE]
    IN
    IF Len(message) < min_length \/ Len(message) > max_length THEN
        /\ chat_response' = ChatRejection(session_id, 422, "validation error", message)
        /\ UNCHANGED <<chat_sessions, chat_calls, sessions_generated>>
    ELSE IF Len(strip(message)) = 0 THEN
        /\ chat_response' = ChatRejection(session_id, 400, "Message cannot be empty",
                                          message)
        /\ UNCHANGED <<chat_sessions, chat_calls, sessions_generated>>
    ELSE IF Len(cleaned_message) = 0 THEN
        /\ chat_response' = ChatRejection(session_id, 400,
                                          "Message contains invalid content", message)
        /\ UNCHANGED <<chat_sessions, chat_calls, sessions_generated>>
    ELSE
        /\ generated => sessions_generated < Len(GeneratedSessionIds)
        /\ Len(session.messages) + 2 * AwaitedReplies(sid) + 2 <= MaxMessages
        /\ sessions_generated' = IF generated THEN sessions_generated + 1
                                 ELSE sessions_generated
        /\ chat_sessions' = (sid :> [session EXCEPT
               !.last_activity = now,
               !.message_count = session.message_count + 1,
               !.messages = Append(session.messages, user_message)])
               @@ chat_sessions
        /\ \E c \in ChatCallIds :
               /\ FreeChatCall(c)
               /\ chat_calls' = [chat_calls EXCEPT ![c] =
                      [pc |-> "awaiting", session_id |-> sid, stale |-> FALSE,
                       provider |-> get_provider(ai_managers.gpt_service),
                       messages |-> _prepare_conversation_context(
                           cleaned_message, chat_sessions'[sid].messages)]]
        /\ UNCHANGED chat_response

\* POST /api/chatbot/chat and POST /api/chatbot
ChatWithBot ==
    \E message \in ChatMessages, session_id \in ClientSessionIds \cup {None} :
        /\ chat_with_bot(message, session_id)
        /\ UNCHANGED <<now, ttsVars, smsVars, apiVars, ai_managers>>

\* the rest of chat_with_bot, run when provider.chat returns or raises; a
\* KeyError of chat_sessions[session_id] ends in the except Exception clause
chat_with_bot_resumed(c, outcome, fallback_response) ==
    LET call == chat_calls[c]
        sid == call.session_id
        ai_response == get_chatbot_response(outcome, fallback_response)
        ai_message == [role |-> "assistant", content |-> ai_response.response,
                       stale |-> call.stale]
    IN
    /\ call.pc = "awaiting"
    /\ chat_calls' = [chat_calls EXCEPT ![c] = IdleChat]
    /\ IF sid \notin DOMAIN chat_sessions THEN
           /\ chat_response' = ChatResponse("chat", sid, 500, "Internal server error",
                  [NoAi EXCEPT !.provider = outcome.kind], NoSessionBody)
           /\ UNCHANGED chat_sessions
       ELSE
           /\ chat_sessions' = [chat_sessions EXCEPT
                  ![sid].messages = Append(chat_sessions[sid].messages, ai_message)]
           /\ chat_response' = ChatResponse("chat", sid, 200, None, ai_response,
                                            NoSessionBody)
    /\ UNCHANGED sessions_generated

ChatResume ==
    \E c \in ChatCallIds, outcome \in ProviderOutcomes,
       fallback_response \in fallback_responses.general :
        /\ chat_with_bot_resumed(c, outcome, fallback_response)
        /\ UNCHANGED <<now, ttsVars, smsVars, apiVars, ai_managers>>

\* GET /api/chatbot/sessions/{session_id}
get_chat_session(session_id) ==
    /\ IF session_id \notin DOMAIN chat_sessions THEN
           chat_response' = ChatError("get_session", session_id, 404, "Session not found")
       ELSE
           chat_response' = ChatResponse("get_session", session_id, 200, None, NoAi,
               [message_count |-> chat_sessions[session_id].message_count,
                returned |-> 0])
    /\ UNCHANGED <<chat_sessions, chat_calls, sessions_generated>>

\* GET /api/chatbot/sessions/{session_id}/history
get_chat_history(session_id, limit) ==
    /\ IF session_id \notin DOMAIN chat_sessions THEN
           chat_response' = ChatError("get_history", session_id, 404, "Session not found")
       ELSE IF limit <= 0 \/ limit > 100 THEN
           chat_response' = ChatError("get_history", session_id, 400,
                                      "Limit must be between 1 and 100")
       ELSE
           LET all == chat_sessions[session_id].messages
               messages == IF limit < Len(all)
                           THEN SubSeq(all, Len(all) - limit + 1, Len(all)) ELSE all
           IN  chat_response' = ChatResponse("get_history", session_id, 200, None, NoAi,
                   [message_count |-> Len(all), returned |-> Len(messages)])
    /\ UNCHANGED <<chat_sessions, chat_calls, sessions_generated>>

\* DELETE /api/chatbot/sessions/{session_id}
delete_chat_session(session_id) ==
    /\ IF session_id \notin DOMAIN chat_sessions THEN
           /\ chat_response' = ChatError("delete", session_id, 404, "Session not found")
           /\ UNCHANGED <<chat_sessions, chat_calls>>
       ELSE
           /\ chat_sessions' = [s \in DOMAIN chat_sessions \ {session_id} |->
                                   chat_sessions[s]]
           /\ chat_calls' = [c \in ChatCallIds |->
                  IF chat_calls[c].session_id = session_id
                  THEN [chat_calls[c] EXCEPT !.stale = TRUE] ELSE chat_calls[c]]
           /\ chat_response' = ChatResponse("delete", session_id, 200, None, NoAi,
                                            NoSessionBody)
    /\ UNCHANGED sessions_generated

\* POST /api/chatbot/sessions/{session_id}/clear
clear_chat_history(session_id) ==
    /\ IF session_id \notin DOMAIN chat_sessions THEN
           /\ chat_response' = ChatError("clear", session_id, 404, "Session not found")
           /\ UNCHANGED chat_sessions
       ELSE
           /\ chat_sessions' = [chat_sessions EXCEPT
                  ![session_id].messages = <<>>, ![session_id].message_count = 0]
           /\ chat_response' = ChatResponse("clear", session_id, 200, None, NoAi,
                  [message_count |-> Len(chat_sessions[session_id].messages),
                   returned |-> 0])
    /\ UNCHANGED <<chat_calls, sessions_generated>>

GetChatSession ==
    \E session_id \in SessionIds :
        get_chat_session(session_id) /\ UNCHANGED <<now, ttsVars, smsVars, apiVars, ai_managers>>

GetChatHistory ==
    \E session_id \in SessionIds, limit \in HistoryLimits :
        get_chat_history(session_id, limit) /\ UNCHANGED <<now, ttsVars, smsVars, apiVars, ai_managers>>

DeleteChatSession ==
    \E session_id \in SessionIds :
        delete_chat_session(session_id) /\ UNCHANGED <<now, ttsVars, smsVars, apiVars, ai_managers>>

ClearChatHistory ==
    \E session_id \in SessionIds :
        clear_chat_history(session_id) /\ UNCHANGED <<now, ttsVars, smsVars, apiVars, ai_managers>>

(***************************************************************************)
(* TTS endpoint (backend/api/tts.py)                                       *)
(***************************************************************************)
\* TTSRequest.text: Field(..., min_length=1, max_length=5000)
tts_min_length == 1
tts_max_length == 5000
TooLongText == [i \in 1..(tts_max_length + 1) |-> "a"]
TTSRequestTexts == {<<>>, <<" ">>, <<"a">>, TooLongText}
\* TTSRequest.speed: absent, 'normal' or 'slow'
Speeds == {None, "slow"}

\* what gTTS does inside _generate_speech: it saves some audio, saves an
\* empty file, or raises
GttsOutcomes ==
    [kind : {"audio"}, audio : Audios]
        \cup {[kind |-> "empty", audio |-> NoAudio],
              [kind |-> "raises", audio |-> NoAudio]}

\* _generate_speech: the bytes read back, None (<<>>) when gTTS raised
_generate_speech(outcome) ==
    IF outcome.kind = "raises" THEN NoAudio ELSE outcome.audio

\* the payload of a successful synthesis
AudioPayload(audio_data, format) ==
    [id |-> 1, audio_data |-> audio_data, format |-> format,
     file_size |-> Len(audio_data)]

\* POST /api/tts/: request validation, the service call, and the handler's
\* treatment of the returned dictionary
synthesize_speech(text, language, speed, outcome) ==
    IF Len(text) < tts_min_length \/ Len(text) > tts_max_length THEN
        /\ http_response' = ErrorResponse("tts",
               HTTPException(422, "validation error", <<>>), 1)
        /\ UNCHANGED ttsVars
    ELSE
        /\ convert_text_to_speech(text, language,
               IF speed = "slow" THEN "True" ELSE "False", None,
               _generate_speech(outcome))
        /\ http_response' =
               IF ~tts_result'.success
               THEN ErrorResponse("tts",
                        HTTPException(500, tts_result'.error, <<>>), 0)
               ELSE OkResponse("tts", AudioPayload(tts_result'.audio, audio_format))

SynthesizeSpeech ==
    \E text \in TTSRequestTexts, language \in Languages, speed \in Speeds,
       outcome \in GttsOutcomes :
        /\ synthesize_speech(text, language, speed, outcome)
        /\ UNCHANGED <<now, tts_calls, smsVars, level_result, emergency_alerts,
                       em_pending, alerts_created, complaints, complaints_created,
                       chatVars>>

\* files a previous run of the service may have left in the cache directory
LeftoverKeys ==
    {_generate_cache_key(<<"a">>, "en", FALSE, "mp3"),
     _generate_cache_key(<<"a", "a">>, "en", TRUE, "wav")}
LeftoverFiles == [mtime : {0 - 30, 0 - 6}, data : {<<2, 2>>}]
InitCaches == UNION {[ks -> LeftoverFiles] : ks \in SUBSET LeftoverKeys}

InitWith(files) ==
    /\ now = 0
    /\ cache = files
    /\ tts_ok = NoPrior
    /\ tts_calls = [c \in TtsCallIds |-> IdleTtsCall]
    /\ tts_result = [success |-> FALSE, cached |-> FALSE, audio |-> NoAudio,
                     key |-> NoKey, error |-> None, synth |-> FALSE,
                     wrote |-> FALSE, at |-> 0, found_age |-> -1,
                     prior |-> NoPrior, seq |-> 0]
    /\ sms_sent_count = 0
    /\ sms_sent_today = 0
    /\ last_sms_reset = now
    /\ sms_calls = [c \in CallIds |-> IdleCall]
    /\ sms_result = [kind |-> None, error |-> None, success |-> FALSE,
                     sent_count |-> 0, total_recipients |-> 0, attempted |-> 0,
                     added |-> 0, check |-> NoCheck, seq |-> 0]
    /\ level_result = [called |-> FALSE, description |-> <<>>,
                       emergency_type |-> NoText, level |-> None]
    /\ emergency_alerts = <<>>
    /\ em_pending = [c \in CallIds |-> NotAwaited]
    /\ alerts_created = 0
    /\ complaints = <<>>
    /\ complaints_created = 0
    /\ http_response = [api |-> None, status |-> 0, detail |-> NoDetail,
                        violations |-> 0, body |-> NoBody,
                        request |-> NoRequest, handler |-> None]
    /\ chat_sessions = <<>>
    /\ chat_calls = [c \in ChatCallIds |-> IdleChat]
    /\ sessions_generated = 0
    /\ ai_managers = [config |-> AIManager, gpt_service |-> AIManager]
    /\ chat_response = [op |-> None, session_id |-> None, status |-> 0,
                        detail |-> None, success |-> FALSE, response |-> <<>>,
                        fallback |-> FALSE, provider |-> None,
                        body |-> NoSessionBody, rejected |-> NoText, seq |-> 0]

(***************************************************************************)
(* Claims about the TTS cache                                              *)
(***************************************************************************)
\* C1: after a successful conversion, a second request with the same text,
\* language, slow flag and format (hence the same cache key) made within the
\* TTL succeeds as a cache hit with the same audio bytes, without a
\* synthesis call and without a cache-file write.
C1_SecondRequestIsCacheHit ==
    (/\ tts_result.key # NoKey
     /\ tts_result.prior.key = tts_result.key
     /\ tts_result.at - tts_result.prior.at <= cache_ttl_hours)
    => /\ tts_result.success
       /\ tts_result.cached
       /\ tts_result.audio = tts_result.prior.audio
       /\ ~tts_result.synth
       /\ ~tts_result.wrote

TtsRequestStep == tts_result'.seq # tts_result.seq

\* C7: a cache file older than cache_ttl_hours is never returned as a cache
\* hit, and the next lookup of its key or the next sweep removes it from the
\* directory.
C7_ExpiredFileNeverServed ==
    [][TtsRequestStep =>
        \A k \in DOMAIN cache :
            now - cache[k].mtime > cache_ttl_hours =>
                /\ ~(tts_result'.cached /\ tts_result'.key = k)
                /\ (tts_result'.key = k \/ tts_result'.wrote) =>
                       \/ k \notin DOMAIN cache'
                       \/ /\ tts_result'.wrote /\ tts_result'.key = k
                          /\ cache'[k].mtime = now /\ cache'[k].data = tts_result'.audio]_vars

\* a lookup found a file older than the TTL, did not serve it and removed it
C7_Witness ==
    /\ tts_result.found_age > cache_ttl_hours
    /\ ~tts_result.cached
    /\ tts_result.key \notin DOMAIN cache

\* C20: the sweep after a miss deletes only files older than the TTL, plus
\* the oldest files needed to get back under the byte budget: while the
\* directory is within budget, a file younger than the TTL (in particular
\* the file just written for the request) is still there after the sweep.
C20_SweepKeepsYoungFiles ==
    [][(TtsRequestStep /\ tts_result'.wrote) =>
        LET written == _cache_audio(cache, tts_result'.key, tts_result'.audio)
        IN  _get_cache_size(written) <= MaxCacheSize =>
                \A k \in DOMAIN written :
                    now - written[k].mtime <= cache_ttl_hours =>
                        /\ k \in DOMAIN cache'
                        /\ cache'[k] = written[k]]_vars

\* directories the TTL purge may leave behind that exceed the budget: up to
\* three files of one or two bytes, written at three different times or at
\* the same time
EvictionKeys ==
    {_generate_cache_key(<<"a">>, "en", FALSE, "mp3"),
     _generate_cache_key(<<"a">>, "en", TRUE, "mp3"),
     _generate_cache_key(<<"a", "a">>, "en", FALSE, "mp3")}
EvictionFiles == [mtime : {0 - 2, 0 - 1, 0}, data : Audios]
OverBudgetCaches ==
    {c \in UNION {[ks -> EvictionFiles] : ks \in SUBSET EvictionKeys} :
        _get_cache_size(c) > MaxCacheSize}

InitOverBudget == \E files \in OverBudgetCaches : InitWith(files)

\* C21: when the directory exceeds max_cache_size, the size eviction
\* deletes files in ascending modification-time order and stops as soon as
\* the total is within budget: afterwards the total is at most
\* max_cache_size, every deleted file is no newer than every kept file, and
\* the total was still over budget before the last deletion.
C21_EvictionOldestFirst ==
    [][cache' # cache =>
        LET deleted == DOMAIN cache \ DOMAIN cache'
        IN  /\ _get_cache_size(cache) > MaxCacheSize
            /\ DOMAIN cache' \subseteq DOMAIN cache
            /\ \A k \in DOMAIN cache' : cache'[k] = cache[k]
            /\ _get_cache_size(cache') <= MaxCacheSize
            /\ \A d \in deleted : \A k \in DOMAIN cache' :
                   cache[d].mtime <= cache[k].mtime
            /\ \E d \in deleted :
                   /\ \A e \in deleted : cache[e].mtime <= cache[d].mtime
                   /\ _get_cache_size(cache') + Len(cache[d].data) > MaxCacheSize]_vars

\* every directory this specification starts on is over budget: one that is
\* within budget and holds a file is what an eviction has left
C21_Witness ==
    /\ _get_cache_size(cache) <= MaxCacheSize
    /\ DOMAIN cache # {}

NextEviction == EnforceCacheSizeLimit

SpecEviction == InitOverBudget /\ [][NextEviction]_vars

Init == \E files \in InitCaches : InitWith(files)

\* the service starts on an empty cache directory
InitEmpty == InitWith(<<>>)

NextTTS == ConvertTextToSpeech \/ TtsTick

SpecTTS == Init /\ [][NextTTS]_vars

NextTTSRace == TtsRaceStep \/ TtsTick

SpecTTSRace == InitEmpty /\ [][NextTTSRace]_vars

\* C13: when the external speech synthesis fails (gTTS raises or yields no
\* audio), POST /api/tts/ does not answer with an error status: the failure
\* is replaced by a fallback result.
C13_SynthesisFailureIsNotAnError ==
    (/\ http_response.api = "tts"
     /\ http_response.violations = 0
     /\ tts_result.synth
     /\ ~tts_result.success)
    => http_response.status = 200

NextTTSApi == SynthesizeSpeech \/ TtsTick

SpecTTSApi == Init /\ [][NextTTSApi]_vars

(***************************************************************************)
(* Claims about the SMS rate limiter                                       *)
(***************************************************************************)
\* a send coroutine of the given kind has been started by this step (its
\* first recipient has been sent to)
SmsStarted(c, kind) ==
    /\ sms_calls[c].pc = "idle"
    /\ sms_calls'[c].pc = "sleeping"
    /\ sms_calls'[c].kind = kind

\* a send coroutine returns in this step
SmsReturns(c) == sms_calls[c].pc = "sleeping" /\ sms_calls'[c].pc = "idle"

\* this step is a send_emergency_alert call that came back after its
\* rate-limit check with the given error
EmergencyRefused(error) ==
    /\ sms_result'.seq # sms_result.seq
    /\ sms_result'.kind = "emergency"
    /\ sms_result'.error = error

\* this step is a send_emergency_alert call for n recipients that got as far
\* as the rate-limit check
EmergencyChecked(n) ==
    \/ \E c \in CallIds : SmsStarted(c, "emergency") /\ Len(sms_calls'[c].recipients) = n
    \/ /\ sms_result'.total_recipients = n
       /\ \/ EmergencyRefused("Rate limit exceeded")
          \/ EmergencyRefused("Failed to prepare emergency message")

NewDay == now \div HoursPerDay > last_sms_reset \div HoursPerDay

\* the limit condition as the check sees it, after its daily reset
LimitHit(n) ==
    \/ sms_sent_count >= max_sms_per_hour
    \/ (IF NewDay THEN 0 ELSE sms_sent_today) + n > max_sms_per_day

ResetCountersStep ==
    /\ sms_sent_count' = 0 /\ sms_sent_today' = 0 /\ last_sms_reset' = now
    /\ UNCHANGED <<sms_calls, sms_result>>

\* C2: once sms_sent_count has reached max_sms_per_hour, every send request
\* (emergency alert, safety notification, status update) is rejected without
\* sending anything: no send coroutine is started, so nothing is sent and
\* nothing is later added to the counters on its behalf.
C2_HourlyLimitRejectsEverySend ==
    [][sms_sent_count >= max_sms_per_hour =>
        \A c \in CallIds : ~(sms_calls[c].pc = "idle" /\ sms_calls'[c].pc = "sleeping")]_vars

\* what a returning send_emergency_alert has done: every recipient was
\* attempted and both counters grow by the number of successful sends
EmergencyReturnsCounted ==
    \A c \in CallIds :
        (SmsReturns(c) /\ sms_calls[c].kind = "emergency") =>
            LET succ == Cardinality({i \in 1..Len(sms_calls[c].results) :
                                        sms_calls[c].results[i].success})
            IN  /\ Len(sms_calls[c].results) = Len(sms_calls[c].recipients)
                /\ sms_result'.attempted = Len(sms_calls[c].recipients)
                /\ sms_result'.sent_count = succ
                /\ sms_sent_count' = sms_sent_count + succ
                /\ sms_sent_today' = sms_sent_today + succ

EmergencyRefusedByLimit ==
    /\ EmergencyRefused("Rate limit exceeded")
    /\ sms_result'.sent_count = 0
    /\ sms_result'.attempted = 0
    /\ UNCHANGED <<sms_calls, sms_sent_count>>

\* C8 as claimed: at the check of send_emergency_alert for n recipients, if
\* sms_sent_count >= max_sms_per_hour or sms_sent_today + n > max_sms_per_day
\* nothing is sent and the result is "Rate limit exceeded" with sent_count 0;
\* otherwise the sending starts, every recipient is attempted and both
\* counters grow by exactly the number of successful sends.
C8_AllOrNothing ==
    [][/\ \A n \in RecipientCounts : EmergencyChecked(n) =>
              IF LimitHit(n) THEN EmergencyRefusedByLimit
              ELSE \E c \in CallIds : SmsStarted(c, "emergency")
       /\ EmergencyReturnsCounted]_vars

\* C8 as amended: as above, except that a call whose alert_type names no
\* template passes the check and then returns "Failed to prepare emergency
\* message" with sent_count 0, nothing sent and nothing counted.
C8_AllOrNothingIfPrepared ==
    [][/\ \A n \in RecipientCounts : EmergencyChecked(n) =>
              IF LimitHit(n) THEN EmergencyRefusedByLimit
              ELSE \/ \E c \in CallIds : SmsStarted(c, "emergency")
                   \/ /\ EmergencyRefused("Failed to prepare emergency message")
                      /\ sms_result'.sent_count = 0
                      /\ sms_result'.attempted = 0
                      /\ UNCHANGED <<sms_calls, sms_sent_count>>
       /\ EmergencyReturnsCounted]_vars

\* an alert to two recipients, one of them unreachable, has returned: both
\* were attempted and one send was counted
C8_Witness ==
    /\ sms_result.kind = "emergency"
    /\ sms_result.error = None
    /\ sms_result.total_recipients = 2
    /\ sms_result.attempted = 2
    /\ sms_result.sent_count = 1
    /\ sms_result.added = 1
    /\ sms_sent_count >= 1

\* C9: once sms_sent_count >= max_sms_per_hour it stays there until
\* reset_counters runs, and meanwhile every rate-limit check fails, at any
\* later hour and on any later day: no checked request gets past the check.
C9_HourlyLimitPermanent ==
    [][sms_sent_count >= max_sms_per_hour =>
        /\ sms_sent_count' >= max_sms_per_hour \/ ResetCountersStep
        /\ \A c \in CallIds : ~SmsStarted(c, "emergency")
        /\ ~EmergencyRefused("Failed to prepare emergency message")]_vars

\* a check on a later day than the last reset zeroed the daily counter and
\* still refused the request because of the hourly counter
C9_Witness ==
    /\ sms_sent_count >= max_sms_per_hour
    /\ sms_result.kind = "emergency"
    /\ sms_result.error = "Rate limit exceeded"
    /\ sms_result.check.ran
    /\ sms_result.check.reset
    /\ sms_sent_today = 0
    /\ now >= HoursPerDay

\* C10: a rate-limit check zeroes sms_sent_today (and moves last_sms_reset
\* to the current time) exactly when the current calendar date is later than
\* the date of last_sms_reset, whatever time has elapsed; otherwise it leaves
\* both alone.
C10_DailyResetOnDateRollover ==
    [][(\E n \in RecipientCounts : EmergencyChecked(n)) =>
        IF NewDay
        THEN sms_sent_today' = 0 /\ last_sms_reset' = now
        ELSE sms_sent_today' = sms_sent_today /\ last_sms_reset' = last_sms_reset]_vars

\* a check less than 24 hours after the last reset, but on the next calendar
\* date, has reset the daily counter
C10_Witness ==
    /\ sms_result.check.ran
    /\ sms_result.check.reset
    /\ sms_result.check.elapsed > 0
    /\ sms_result.check.elapsed < HoursPerDay
    /\ sms_sent_count > 0
    /\ sms_sent_today = 0
    /\ last_sms_reset = now

NextSMS ==
    \/ SendEmergencyAlert
    \/ SendSafetyNotification
    \/ SendStatusUpdate
    \/ SmsResume
    \/ reset_counters
    \/ SmsTick

SpecSMS == InitEmpty /\ [][NextSMS]_vars

\* C25: between two daily resets sms_sent_today never exceeds
\* max_sms_per_day, for any number of send_emergency_alert calls and any
\* interleaving of them.
C25_DailyLimitHolds == sms_sent_today <= max_sms_per_day

\* send_emergency_alert calls only, overlapping at their sleeps
NextSMSAlerts ==
    \/ SendEmergencyAlert
    \/ SmsResume
    \/ SmsTick

SpecSMSAlerts == InitEmpty /\ [][NextSMSAlerts]_vars

(***************************************************************************)
(* Claims about the severity classifier and the request validation         *)
(***************************************************************************)
Lost == <<"l", "o", "s", "t">>

\* the lower-cased description contains one of the given keywords
Mentions(description, keywords) == ContainsAny(lower(description), keywords)

\* C3: a trigger-emergency or submit-complaint request that fails the
\* handler's own validation (validate_emergency_data or
\* validate_complaint_data returns at least one error) is answered with HTTP
\* 400 whose detail starts with "Validation errors" and lists the violated
\* rules.
C3_ValidationFailureIs400 ==
    http_response.violations > 0 =>
        /\ http_response.status = 400
        /\ http_response.detail.head = "Validation errors"
        /\ Len(http_response.detail.errors) = http_response.violations

C5_NoKeywordNoHintIsLow ==
    /\ (/\ level_result.called
        /\ level_result.emergency_type = NoText
        /\ ~Mentions(level_result.description, critical_keywords \cup high_keywords))
       => level_result.level = "low"
    /\ (/\ http_response.api = "emergency"
        /\ http_response.status = 200
        /\ http_response.body.request.emergency_type = NoText
        /\ http_response.body.request.timestamp = NoText
        /\ ~Mentions(http_response.body.request.description,
                     critical_keywords \cup high_keywords))
       => http_response.body.emergency_level = "low"

\* C6: a description whose only emergency-related word is "lost" (for
\* example "I got lost at the mall"), given without a type hint, is
\* classified as emergency level "medium".
C6_OnlyLostIsMedium ==
    (/\ level_result.called
     /\ level_result.emergency_type = NoText
     /\ Mentions(level_result.description, {Lost})
     /\ ~Mentions(level_result.description,
                  (critical_keywords \cup high_keywords) \ {Lost}))
    => level_result.level = "medium"

MissingWord == <<"m", "i", "s", "s", "i", "n", "g">>
HighHintWords ==
    {<<"i", "m", "m", "e", "d", "i", "a", "t", "e">>, <<"d", "a", "n", "g", "e", "r">>,
     <<"m", "e", "d", "i", "c", "a", "l">>, <<"a", "b", "u", "s", "e">>}

\* the classifier was called with a description without a critical or high
\* keyword and a type hint containing "missing"
MissingHintCase ==
    /\ level_result.called
    /\ ~Mentions(level_result.description, critical_keywords \cup high_keywords)
    /\ level_result.emergency_type # NoText
    /\ Mentions(level_result.emergency_type[1], {MissingWord})

\* C11 as claimed: for a description containing no critical keyword and no
\* high keyword, with a type hint that contains "missing", the classifier
\* returns "medium".
C11_MissingHintIsMedium ==
    MissingHintCase => level_result.level = "medium"

\* C11: for a description containing no critical keyword and no high
\* keyword, with a type hint that contains "missing" and none of the words
\* "immediate", "danger", "medical", "abuse", the classifier returns
\* "medium"; a hint that contains one of these four words gives "high".
C11_MissingHintWithoutHighWordIsMedium ==
    MissingHintCase =>
        IF Mentions(level_result.emergency_type[1], HighHintWords)
        THEN level_result.level = "high"
        ELSE level_result.level = "medium"

C11_Witness ==
    /\ MissingHintCase
    /\ ~Mentions(level_result.emergency_type[1], HighHintWords)
    /\ level_result.level = "medium"

NextAPI ==
    \/ TriggerEmergency
    \/ SmsResume
    \/ SubmitComplaint

SpecAPI == InitEmpty /\ [][NextAPI]_vars

(***************************************************************************)
(* Claims about the chatbot API                                            *)
(***************************************************************************)
FallbackTexts == UNION {fallback_responses[k] : k \in DOMAIN fallback_responses}

\* C12: if the AI provider call raises or returns no content during a chat
\* request, the chat endpoint still answers HTTP 200 with fallback = true
\* and one of the fixed hardcoded fallback strings as the response text,
\* instead of propagating an error to the caller.
C12_ProviderFailureIsFallback ==
    (chat_response.op = "chat" /\ chat_response.provider \in {"raises", "empty"})
    => /\ chat_response.status = 200
       /\ chat_response.fallback
       /\ chat_response.response \in FallbackTexts

\* a send result that stands for a message handed to a delivery channel
Delivered(result) ==
    \/ result.provider = "twilio"
    \/ result.fallback_methods \cap {"email", "webhook"} # {}

\* C24: a single send reports success for a recipient only if the message
\* was handed to a delivery channel (Twilio, e-mail or webhook); a message
\* that was only written to the log is not reported as sent.
C24_SuccessMeansDelivered ==
    \A c \in CallIds : \A i \in 1..Len(sms_calls[c].results) :
        sms_calls[c].results[i].success => Delivered(sms_calls[c].results[i])

\* C23: for an emergency triggered through the API, the emergency_type of
\* the request is the hint the classifier inspects: with a description that
\* holds no critical and no high keyword, an emergency_type containing
\* "immediate", "danger", "medical" or "abuse" gives the level "high".
C23_RequestTypeIsTheHint ==
    (/\ http_response.api = "emergency"
     /\ http_response.handler = None
     /\ http_response.status = 200
     /\ ~Mentions(http_response.body.request.description,
                  critical_keywords \cup high_keywords)
     /\ http_response.body.request.emergency_type # NoText
     /\ Mentions(http_response.body.request.emergency_type[1], HighHintWords))
    => http_response.body.emergency_level = "high"

\* the step in which process_emergency answers 200
EmergencyProcessed ==
    /\ http_response' # http_response
    /\ http_response'.api = "emergency"
    /\ http_response'.handler = None
    /\ http_response'.status = 200

\* C17: for a successfully processed emergency, contacts_notified in the
\* response and in the stored alert has exactly one entry per contact of the
\* request, in request order, whose status is "sent" if and only if the SMS
\* send to that contact's phone reported success, and "failed" otherwise.
C17_OneEntryPerContact ==
    [][EmergencyProcessed =>
        LET body == http_response'.body
            contacts == body.request.contacts
            notified == body.contacts_notified
        IN  /\ emergency_alerts'[body.id].contacts_notified = notified
            /\ Len(notified) = Len(contacts)
            /\ \A i \in 1..Len(contacts) :
                   /\ notified[i].name = contacts[i].name
                   /\ notified[i].phone = contacts[i].phone
                   /\ notified[i].relationship = contacts[i].relationship
                   /\ notified[i].status \in {"sent", "failed"}
                   /\ notified[i].status = "sent" <=>
                          /\ i <= sms_result'.attempted
                          /\ _send_single_sms(contacts[i].phone).success]_vars

\* an emergency with two contacts was answered: the send to the first
\* contact's phone succeeded, the send to the second one's did not
C17_Witness ==
    /\ http_response.api = "emergency"
    /\ http_response.handler = None
    /\ http_response.status = 200
    /\ Len(http_response.body.request.contacts) = 2
    /\ Len(http_response.body.contacts_notified) = 2
    /\ http_response.body.contacts_notified[1].status = "sent"
    /\ http_response.body.contacts_notified[2].status = "failed"
    /\ emergency_alerts[http_response.body.id].contacts_notified
           = http_response.body.contacts_notified

\* C14: GET /api/emergency/statistics, GET /api/emergency/health and
\* GET /api/complaint/health are answered by their dedicated handlers with
\* HTTP 200 (the statistics body, respectively status "healthy"); they are
\* never dispatched as the lookup of an alert or complaint of that id.
C14_FixedPathsReachTheirHandlers ==
    /\ (/\ http_response.api = "emergency"
        /\ http_response.request.method = "GET"
        /\ http_response.request.path = <<"statistics">>)
       => /\ http_response.handler = "get_emergency_statistics"
          /\ http_response.status = 200
    /\ (/\ http_response.api \in {"emergency", "complaint"}
        /\ http_response.request.method = "GET"
        /\ http_response.request.path = <<"health">>)
       => /\ http_response.handler = "health_check"
          /\ http_response.status = 200

NextRoutes == TriggerEmergency \/ SmsResume \/ EmergencyGet \/ ComplaintGet

SpecRoutes == InitEmpty /\ [][NextRoutes]_vars

\* the handlers the claim names: get, the legacy PDF and Word downloads,
\* status update, delete
ComplaintIdHandlers ==
    {"get_complaint", "download_pdf", "download_word", "update_status",
     "delete_complaint"}

\* C15: every complaint operation on an id that is not in the store (get,
\* legacy PDF download, legacy Word download, status update, delete) answers
\* 404 and leaves the store unchanged.
C15_MissingComplaintIs404 ==
    [][(/\ http_response' # http_response
        /\ http_response'.api = "complaint"
        /\ http_response'.handler \in ComplaintIdHandlers
        /\ ComplaintKey(http_response'.request.path[1]) \notin DOMAIN complaints)
       => /\ http_response'.status = 404
          /\ complaints' = complaints]_vars

NextComplaint ==
    SubmitComplaint \/ ComplaintGet \/ UpdateComplaintStatus \/ DeleteComplaint

SpecComplaint == InitEmpty /\ [][NextComplaint]_vars

\* C16: updating the status of a stored alert to s succeeds with HTTP 200
\* and returns the alert with status s, and the stored alert reports s.
C16_StatusUpdateSucceeds ==
    [][(/\ http_response' # http_response
        /\ http_response'.handler = "update_alert_status"
        /\ AlertKey(http_response'.request.path[1]) \in DOMAIN emergency_alerts)
       => /\ http_response'.status = 200
          /\ http_response'.body.status = http_response'.request.status
          /\ emergency_alerts'[AlertKey(http_response'.request.path[1])].status
                 = http_response'.request.status]_vars

NextAlerts == TriggerEmergency \/ SmsResume \/ EmergencyGet \/ UpdateAlertStatus

SpecAlerts == InitEmpty /\ [][NextAlerts]_vars

\* C26: once a delete of an emergency alert has returned success, the alert
\* id is absent from the store and stays absent, even when the delete ran
\* while the trigger request that created the alert was awaiting its
\* notifications.  Every created alert is stored under its id at once and
\* only a successful delete removes it, so an id that has been handed out and
\* is absent is a deleted one.
C26_DeletedAlertStaysDeleted ==
    [][\A i \in AlertIds :
          (i <= alerts_created /\ i \notin DOMAIN emergency_alerts)
              => i \notin DOMAIN emergency_alerts']_vars

NextAlertDelete ==
    TriggerEmergency \/ SmsResume \/ EmergencyGet \/ DeleteEmergencyAlert

SpecAlertDelete == InitEmpty /\ [][NextAlertDelete]_vars

\* the step answers a request of the given kinds for the session
SessionRequest(ops, sid) ==
    /\ chat_response'.seq # chat_response.seq
    /\ chat_response'.op \in ops
    /\ chat_response'.session_id = sid

\* a chat request for the session has been accepted in this step
ChatAccepted(sid) ==
    \E c \in ChatCallIds :
        /\ chat_calls[c].pc = "idle"
        /\ chat_calls'[c].pc = "awaiting"
        /\ chat_calls'[c].session_id = sid

\* C18: a successful delete removes the session with its messages; while the
\* id is not in the store, get-session, get-history, clear and delete answer
\* 404 and do not bring it back; only a chat message carrying the id does,
\* and the session it creates holds that one user message and nothing else.
C18_DeletedSessionIsGone ==
    [][\A sid \in SessionIds :
        /\ (SessionRequest({"delete"}, sid) /\ chat_response'.status = 200)
           => sid \notin DOMAIN chat_sessions'
        /\ sid \notin DOMAIN chat_sessions =>
              /\ SessionRequest({"get_session", "get_history", "clear", "delete"}, sid)
                 => /\ chat_response'.status = 404
                    /\ sid \notin DOMAIN chat_sessions'
              /\ sid \in DOMAIN chat_sessions' =>
                    /\ ChatAccepted(sid)
                    /\ chat_sessions'[sid].message_count = 1
                    /\ Len(chat_sessions'[sid].messages) = 1
                    /\ chat_sessions'[sid].messages[1].role = "user"
                    /\ ~chat_sessions'[sid].messages[1].stale]_vars

\* the last response is the successful delete of a session that had
\* messages, and a chat message has created the session afresh since
C18_Witness ==
    /\ chat_response.op = "delete"
    /\ chat_response.status = 200
    /\ chat_response.session_id \in DOMAIN chat_sessions
    /\ Len(chat_sessions[chat_response.session_id].messages) = 1

\* the step refuses a chat request because of its message
ChatRejected ==
    /\ chat_response'.seq # chat_response.seq
    /\ chat_response'.op = "chat"
    /\ chat_response'.rejected # NoText

\* C19: a chat request that is rejected because of its message (empty or
\* over the maximum length: 422; whitespace-only or empty after cleaning:
\* 400) creates no session and changes no session's message_count, messages
\* or last_activity.
C19_RejectedChatChangesNothing ==
    [][ChatRejected =>
        LET message == chat_response'.rejected[1]
        IN  /\ chat_response'.status =
                   IF Len(message) = 0 \/ Len(message) > max_length THEN 422 ELSE 400
            /\ chat_response'.status = 400 =>
                   Len(strip(message)) = 0 \/ Len(clean_text(message)) = 0
            /\ DOMAIN chat_sessions' = DOMAIN chat_sessions
            /\ \A sid \in DOMAIN chat_sessions :
                   /\ chat_sessions'[sid].message_count = chat_sessions[sid].message_count
                   /\ chat_sessions'[sid].messages = chat_sessions[sid].messages
                   /\ chat_sessions'[sid].last_activity = chat_sessions[sid].last_activity
            /\ sessions_generated' = sessions_generated]_vars

\* a chat request naming an existing session was refused with 400 for a
\* message that is empty after cleaning, and the session is as it was
C19_Witness ==
    /\ chat_response.op = "chat"
    /\ chat_response.status = 400
    /\ chat_response.rejected = Some(OnlyTag)
    /\ chat_response.session_id \in DOMAIN chat_sessions
    /\ chat_sessions[chat_response.session_id].message_count = 1

NextChat ==
    \/ ChatWithBot
    \/ ChatResume
    \/ GetChatSession
    \/ GetChatHistory
    \/ DeleteChatSession
    \/ ClearChatHistory

SpecChat == InitEmpty /\ [][NextChat]_vars

\* C28: a chat request that has passed input validation (its provider call
\* was made) completes with a chat response for its session and never with
\* HTTP 500, even if the session is deleted by another request while the AI
\* response is awaited.
C28_AcceptedChatCompletes ==
    (chat_response.op = "chat" /\ chat_response.provider # None)
    => chat_response.status = 200

\* C29: after POST /api/config/ai has selected a provider, the chat requests
\* that follow are served by it: the provider the config API reports is the
\* one the GPT service calls.  A chat request that starts while the last
\* response of the config API reports a provider is handed that provider.
C29_SelectedProviderServes ==
    [][\A c \in ChatCallIds :
          (/\ chat_calls[c].pc = "idle"
           /\ chat_calls'[c].pc = "awaiting"
           /\ http_response.api = "config"
           /\ http_response.status = 200)
          => chat_calls'[c].provider = _build_provider(http_response.body.provider)]_vars

NextAIConfig ==
    \/ GetAiConfig
    \/ SetAiConfig
    \/ ChatWithBot
    \/ ChatResume

SpecAIConfig == InitEmpty /\ [][NextAIConfig]_vars

\* C30: the message list sent to the AI provider for a chat request is the
\* system prompt first, then at most the 10 most recent earlier messages of
\* the session, then the current user message exactly once as the final
\* entry.
C30_ContextHasCurrentMessageOnce ==
    [][\A c \in ChatCallIds :
          (chat_calls[c].pc = "idle" /\ chat_calls'[c].pc = "awaiting") =>
              LET sid == chat_calls'[c].session_id
                  earlier == IF sid \in DOMAIN chat_sessions
                             THEN chat_sessions[sid].messages ELSE <<>>
                  now_stored == chat_sessions'[sid].messages
                  current == ContextMessage(now_stored[Len(now_stored)])
                  recent == LastMessages(earlier, history_limit)
              IN  chat_calls'[c].messages =
                      <<SystemMessage>>
                      \o [i \in 1..Len(recent) |-> ContextMessage(recent[i])]
                      \o <<current>>]_vars

NextChatContext ==
    \/ ChatWithBot
    \/ ChatResume

SpecChatContext == InitEmpty /\ [][NextChatContext]_vars

\* C27: whenever no chat request is in flight, the messages list of every
\* stored session has exactly 2 x message_count entries that form
\* consecutive (user, assistant) pairs, after any sequence of chat and clear
\* requests, overlapping ones included.
C27_SessionsHoldPairs ==
    (\A c \in ChatCallIds : chat_calls[c].pc = "idle") =>
        \A s \in DOMAIN chat_sessions :
            LET messages == chat_sessions[s].messages
            IN  /\ Len(messages) = 2 * chat_sessions[s].message_count
                /\ \A i \in 1..Len(messages) :
                       messages[i].role = IF i % 2 = 1 THEN "user" ELSE "assistant"

\* chat and clear requests only
NextChatClear ==
    \/ ChatWithBot
    \/ ChatResume
    \/ ClearChatHistory

SpecChatClear == InitEmpty /\ [][NextChatClear]_vars

NextClassifier == DetermineEmergencyLevel

SpecClassifier == InitEmpty /\ [][NextClassifier]_vars

Next ==
    \/ NextTTS
    \/ NextSMS
    \/ TriggerEmergency
    \/ SubmitComplaint
    \/ DetermineEmergencyLevel
    \/ SynthesizeSpeech
    \/ EmergencyGet
    \/ UpdateAlertStatus
    \/ ComplaintGet
    \/ UpdateComplaintStatus
    \/ DeleteComplaint
    \/ DeleteEmergencyAlert
    \/ ChatWithBot
    \/ ChatResume
    \/ GetChatSession
    \/ GetChatHistory
    \/ DeleteChatSession
    \/ ClearChatHistory
    \/ GetAiConfig
    \/ SetAiConfig
    \/ EnforceCacheSizeLimit
    \/ TtsRaceStep

Spec == Init /\ [][Next]_vars

====
